---------------------------- MODULE Spec2Model ----------------------------
(***************************************************************************)
(* Model of backend/main.py: the FastAPI chat proxy with a per-session     *)
(* transcript, a sliding window sent upstream, a per-session rate limiter  *)
(* and a capped session store with inactivity eviction.                    *)
(*                                                                         *)
(* Every endpoint is an `async def` that never awaits: the upstream call   *)
(* client.messages.create is the synchronous Anthropic client, so a        *)
(* handler runs from its first to its last line in one turn of the event   *)
(* loop.  One request is therefore one action.  Time is in seconds; the    *)
(* calls of datetime.now() made in one turn read one instant, clock.       *)
(***************************************************************************)
EXTENDS Integers, Sequences, FiniteSets, TLC

\* ------------------------------------------------------------ configuration
MAX_MESSAGE_LENGTH == 2000
SLIDING_WINDOW_SIZE == 20
RATE_LIMIT_MAX_REQUESTS == 10
RATE_LIMIT_WINDOW_SECONDS == 60
MAX_CONCURRENT_SESSIONS == 4
SESSION_INACTIVITY_TIMEOUT_MINUTES == 5

VARIABLES
    sessions,            \* session_id -> [history, last_activity]
    rate_limit_tracker,  \* session_id -> sequence of admitted timestamps
    clock,               \* what datetime.now() returns
    response,            \* the answer to the request handled by the last step
    sent,                \* the calls of client.messages.create made while
                         \* handling that request: [messages, raised]
    evicted,             \* the sessions that request removed from the store
    log,                 \* the /chat requests seen: all so far, as [time,
                         \* session_id, status], in SpecRate; the last one,
                         \* with its message, in SpecWindow and SpecValidate;
                         \* the last two requests of any kind in SpecLife
    in_flight            \* the /chat requests whose handler is inside
                         \* client.messages.create: [session_id, window]

vars ==
    <<sessions, rate_limit_tracker, clock, response, sent, evicted, log,
      in_flight>>

\* ------------------------------------------------------------ dictionaries
\* d[k] = v of a Python dict
DictSet(d, k, v) == [x \in (DOMAIN d) \cup {k} |-> IF x = k THEN v ELSE d[x]]

\* del d[k] for every k of ks
DictDel(d, ks) == [x \in (DOMAIN d) \ ks |-> d[x]]

EmptyDict == [x \in {} |-> 0]

\* ------------------------------------------------------------ strings
\* A str is the sequence of its characters.
Whitespace == {" ", "\n"}

RECURSIVE lstrip(_)
lstrip(v) ==
    IF v # <<>> /\ Head(v) \in Whitespace THEN lstrip(Tail(v)) ELSE v

RECURSIVE rstrip(_)
rstrip(v) ==
    IF v # <<>> /\ v[Len(v)] \in Whitespace
    THEN rstrip(SubSeq(v, 1, Len(v) - 1))
    ELSE v

\* str.strip()
strip(v) == rstrip(lstrip(v))

\* Mutant of validate_message: the message is returned as it came
validate_message_untrimmed(v) ==
    IF v = <<>> \/ strip(v) = <<>> THEN [error |-> TRUE, value |-> <<>>]
    ELSE IF Len(v) > MAX_MESSAGE_LENGTH THEN [error |-> TRUE, value |-> <<>>]
    ELSE [error |-> FALSE, value |-> v]

\* Mutant of validate_message: the length is measured after stripping
validate_message_strips_first(v) ==
    IF v = <<>> \/ strip(v) = <<>> THEN [error |-> TRUE, value |-> <<>>]
    ELSE IF Len(strip(v)) > MAX_MESSAGE_LENGTH THEN [error |-> TRUE, value |-> <<>>]
    ELSE [error |-> FALSE, value |-> strip(v)]

\* ChatRequest.validate_message: the normalised message, or the ValueError
validate_message(v) ==
    IF v = <<>> \/ strip(v) = <<>> THEN [error |-> TRUE, value |-> <<>>]
    ELSE IF Len(v) > MAX_MESSAGE_LENGTH THEN [error |-> TRUE, value |-> <<>>]
    ELSE [error |-> FALSE, value |-> strip(v)]

\* Optional[str] = None of ChatRequest.session_id
None == "<None>"

\* ------------------------------------------------------------ rate limiter
\* Mutant of check_rate_limit: one request too many is admitted
check_rate_limit_late(tracker, session_id, now) ==
    LET initialised == IF session_id \in DOMAIN tracker
                       THEN tracker
                       ELSE DictSet(tracker, session_id, <<>>)
        kept == SelectSeq(initialised[session_id],
                          LAMBDA ts : ts > now - RATE_LIMIT_WINDOW_SECONDS)
    IN  IF Len(kept) > RATE_LIMIT_MAX_REQUESTS
        THEN [allowed |-> FALSE,
              tracker |-> DictSet(initialised, session_id, kept)]
        ELSE [allowed |-> TRUE,
              tracker |-> DictSet(initialised, session_id, Append(kept, now))]

\* Mutant of check_rate_limit: one record is kept for all identifiers
check_rate_limit_shared(tracker, session_id, now) ==
    LET initialised == IF "shared" \in DOMAIN tracker
                       THEN tracker
                       ELSE DictSet(tracker, "shared", <<>>)
        kept == SelectSeq(initialised["shared"],
                          LAMBDA ts : ts > now - RATE_LIMIT_WINDOW_SECONDS)
    IN  IF Len(kept) >= RATE_LIMIT_MAX_REQUESTS
        THEN [allowed |-> FALSE,
              tracker |-> DictSet(initialised, "shared", kept)]
        ELSE [allowed |-> TRUE,
              tracker |-> DictSet(initialised, "shared", Append(kept, now))]

\* Mutant of check_rate_limit: a rejected attempt is recorded too
check_rate_limit_counts_rejected(tracker, session_id, now) ==
    LET initialised == IF session_id \in DOMAIN tracker
                       THEN tracker
                       ELSE DictSet(tracker, session_id, <<>>)
        kept == SelectSeq(initialised[session_id],
                          LAMBDA ts : ts > now - RATE_LIMIT_WINDOW_SECONDS)
    IN  [allowed |-> Len(kept) < RATE_LIMIT_MAX_REQUESTS,
         tracker |-> DictSet(initialised, session_id, Append(kept, now))]

\* Mutant of check_rate_limit: a timestamp exactly RATE_LIMIT_WINDOW_SECONDS
\* old is kept
check_rate_limit_inclusive(tracker, session_id, now) ==
    LET initialised == IF session_id \in DOMAIN tracker
                       THEN tracker
                       ELSE DictSet(tracker, session_id, <<>>)
        kept == SelectSeq(initialised[session_id],
                          LAMBDA ts : ts >= now - RATE_LIMIT_WINDOW_SECONDS)
    IN  IF Len(kept) >= RATE_LIMIT_MAX_REQUESTS
        THEN [allowed |-> FALSE,
              tracker |-> DictSet(initialised, session_id, kept)]
        ELSE [allowed |-> TRUE,
              tracker |-> DictSet(initialised, session_id, Append(kept, now))]

\* check_rate_limit(session_id) at time now: the value returned and the
\* tracker it leaves
\* Mutant of check_rate_limit: the new timestamp is put in front of the record
check_rate_limit_prepends(tracker, session_id, now) ==
    LET window_start == now - RATE_LIMIT_WINDOW_SECONDS
        initialised == IF session_id \in DOMAIN tracker
                       THEN tracker
                       ELSE DictSet(tracker, session_id, <<>>)
        kept == SelectSeq(initialised[session_id], LAMBDA ts : ts > window_start)
    IN  IF Len(kept) >= RATE_LIMIT_MAX_REQUESTS
        THEN [allowed |-> FALSE,
              tracker |-> DictSet(initialised, session_id, kept)]
        ELSE [allowed |-> TRUE,
              tracker |-> DictSet(initialised, session_id, <<now>> \o kept)]

check_rate_limit(tracker, session_id, now) ==
    LET window_start == now - RATE_LIMIT_WINDOW_SECONDS
        initialised == IF session_id \in DOMAIN tracker
                       THEN tracker
                       ELSE DictSet(tracker, session_id, <<>>)
        kept == SelectSeq(initialised[session_id], LAMBDA ts : ts > window_start)
    IN  IF Len(kept) >= RATE_LIMIT_MAX_REQUESTS
        THEN [allowed |-> FALSE,
              tracker |-> DictSet(initialised, session_id, kept)]
        ELSE [allowed |-> TRUE,
              tracker |-> DictSet(initialised, session_id, Append(kept, now))]

\* ------------------------------------------------------------ eviction
\* timedelta(minutes=SESSION_INACTIVITY_TIMEOUT_MINUTES), in seconds
Timeout == SESSION_INACTIVITY_TIMEOUT_MINUTES * 60

\* Mutants of cleanup_inactive_sessions: a session exactly at the cutoff is
\* removed too; the rate-limit records of the removed sessions stay.
cleanup_inactive_sessions_inclusive(sess, tracker, now) ==
    LET sessions_to_remove ==
            {session_id \in DOMAIN sess :
                sess[session_id].last_activity <= now - Timeout}
    IN  [sessions |-> DictDel(sess, sessions_to_remove),
         tracker |-> DictDel(tracker, sessions_to_remove),
         removed |-> Cardinality(sessions_to_remove)]

cleanup_inactive_sessions_keeps_records(sess, tracker, now) ==
    LET sessions_to_remove ==
            {session_id \in DOMAIN sess :
                sess[session_id].last_activity < now - Timeout}
    IN  [sessions |-> DictDel(sess, sessions_to_remove),
         tracker |-> tracker,
         removed |-> Cardinality(sessions_to_remove)]

\* cleanup_inactive_sessions() at time now: the two dictionaries it leaves
\* and the count it returns
\* Mutant of cleanup_inactive_sessions: the records of ids that have no
\* session are swept as well
cleanup_inactive_sessions_sweeps(sess, tracker, now) ==
    LET cutoff_time == now - Timeout
        sessions_to_remove ==
            {session_id \in DOMAIN sess : sess[session_id].last_activity < cutoff_time}
    IN  [sessions |-> DictDel(sess, sessions_to_remove),
         tracker |-> DictDel(tracker,
                             sessions_to_remove \cup (DOMAIN tracker \ DOMAIN sess)),
         removed |-> Cardinality(sessions_to_remove)]

cleanup_inactive_sessions(sess, tracker, now) ==
    LET cutoff_time == now - Timeout
        sessions_to_remove ==
            {session_id \in DOMAIN sess : sess[session_id].last_activity < cutoff_time}
    IN  [sessions |-> DictDel(sess, sessions_to_remove),
         tracker |-> DictDel(tracker, sessions_to_remove),
         removed |-> Cardinality(sessions_to_remove)]

\* ------------------------------------------------------------ window
\* Mutants of sliding_window: no truncation; the leading instead of the
\* trailing SLIDING_WINDOW_SIZE messages.
sliding_window_whole(conversation_history) == conversation_history

sliding_window_leading(conversation_history) ==
    IF Len(conversation_history) > SLIDING_WINDOW_SIZE
    THEN SubSeq(conversation_history, 1, SLIDING_WINDOW_SIZE)
    ELSE conversation_history

\* Mutant of sliding_window: the window is taken of the transcript as it was
\* before the last append
sliding_window_stale(conversation_history) ==
    LET before == SubSeq(conversation_history, 1, Len(conversation_history) - 1)
    IN  IF Len(before) > SLIDING_WINDOW_SIZE
        THEN SubSeq(before, Len(before) - SLIDING_WINDOW_SIZE + 1, Len(before))
        ELSE before

\* conversation_history[-SLIDING_WINDOW_SIZE:] if longer than the window,
\* else conversation_history
\* Mutant of sliding_window: a tail that begins with an assistant message
\* loses that message, so that the window begins with a whole turn
sliding_window_whole_turns(conversation_history) ==
    LET tail == IF Len(conversation_history) > SLIDING_WINDOW_SIZE
                THEN SubSeq(conversation_history,
                            Len(conversation_history) - SLIDING_WINDOW_SIZE + 1,
                            Len(conversation_history))
                ELSE conversation_history
    IN  IF tail # <<>> /\ tail[1].role = "assistant"
        THEN Tail(tail)
        ELSE tail

sliding_window(conversation_history) ==
    IF Len(conversation_history) > SLIDING_WINDOW_SIZE
    THEN SubSeq(conversation_history,
                Len(conversation_history) - SLIDING_WINDOW_SIZE + 1,
                Len(conversation_history))
    ELSE conversation_history

Message(role, content) == [role |-> role, content |-> content]

\* One call client.messages.create(messages=...), and whether it raised
Call(messages, raised) == [messages |-> messages, raised |-> raised]

\* ------------------------------------------------------------ responses
\* What a handler answers.  Fields an endpoint does not set keep these
\* defaults.
NoResponse ==
    [endpoint |-> "none", status |-> 0, session_id |-> None,
     text |-> <<>>, history_size |-> 0, history |-> <<>>,
     sessions_removed |-> 0, sessions_remaining |-> 0]

Answer(endpoint, status, session_id) ==
    [NoResponse EXCEPT !.endpoint = endpoint, !.status = status,
                       !.session_id = session_id]

\* ------------------------------------------------------------ POST /chat
\* session_id = request.session_id or str(uuid.uuid4())
resolve_session_id(req_session_id, uuid) ==
    IF req_session_id \in {None, ""} THEN uuid ELSE req_session_id

\* Mutant of limit_reached: one session too many is let in
limit_reached_late(sess) == Cardinality(DOMAIN sess) > MAX_CONCURRENT_SESSIONS

\* len(sessions) >= MAX_CONCURRENT_SESSIONS
limit_reached(sess) == Cardinality(DOMAIN sess) >= MAX_CONCURRENT_SESSIONS

\* Mutants of admit_session: the capacity check also hits a known session;
\* the capacity is checked on the store as it was before the eviction run;
\* no eviction run is made.
admit_session_known_too(sess, tracker, session_id, now) ==
    IF session_id \in DOMAIN sess
    THEN [sessions |-> sess, tracker |-> tracker, full |-> limit_reached(sess)]
    ELSE LET cleaned == cleanup_inactive_sessions(sess, tracker, now)
         IN  [sessions |-> cleaned.sessions, tracker |-> cleaned.tracker,
              full |-> limit_reached(cleaned.sessions)]

admit_session_check_first(sess, tracker, session_id, now) ==
    IF session_id \in DOMAIN sess
    THEN [sessions |-> sess, tracker |-> tracker, full |-> FALSE]
    ELSE LET cleaned == cleanup_inactive_sessions(sess, tracker, now)
         IN  [sessions |-> cleaned.sessions, tracker |-> cleaned.tracker,
              full |-> limit_reached(sess)]

admit_session_no_cleanup(sess, tracker, session_id, now) ==
    [sessions |-> sess, tracker |-> tracker,
     full |-> session_id \notin DOMAIN sess /\ limit_reached(sess)]

\* The branch `if session_id not in sessions` up to the capacity check: the
\* eviction run it makes first, and whether the 503 is raised.
\* Mutant of admit_session: the eviction run is made for every request, of
\* known ids too
admit_session_evicts_first(sess, tracker, session_id, now) ==
    LET cleaned == cleanup_inactive_sessions(sess, tracker, now)
    IN  [sessions |-> cleaned.sessions, tracker |-> cleaned.tracker,
         full |-> /\ session_id \notin DOMAIN cleaned.sessions
                  /\ limit_reached(cleaned.sessions)]

admit_session(sess, tracker, session_id, now) ==
    IF session_id \in DOMAIN sess
    THEN [sessions |-> sess, tracker |-> tracker, full |-> FALSE]
    ELSE LET cleaned == cleanup_inactive_sessions(sess, tracker, now)
         IN  [sessions |-> cleaned.sessions, tracker |-> cleaned.tracker,
              full |-> limit_reached(cleaned.sessions)]

\* sessions[session_id] = {"history": [], "last_activity": now} if it is new
\* Mutant of create_session: a new session starts with a greeting in its
\* transcript
create_session_seeded(sess, session_id, now) ==
    IF session_id \in DOMAIN sess
    THEN sess
    ELSE DictSet(sess, session_id,
                 [history |-> <<Message("assistant", <<"h", "i">>)>>,
                  last_activity |-> now])

create_session(sess, session_id, now) ==
    IF session_id \in DOMAIN sess
    THEN sess
    ELSE DictSet(sess, session_id, [history |-> <<>>, last_activity |-> now])

\* Mutant of append_message: the message goes to the transcript of every
\* session
append_message_shared(sess, session_id, message, now) ==
    [s \in DOMAIN sess |->
        [history |-> Append(sess[s].history, message),
         last_activity |-> IF s = session_id THEN now ELSE sess[s].last_activity]]

\* Mutant of append_message: the stored transcript is cut to the window
append_message_truncating(sess, session_id, message, now) ==
    DictSet(sess, session_id,
            [history |-> sliding_window_leading(
                             Append(sess[session_id].history, message)),
             last_activity |-> now])

\* session_data["last_activity"] = now; conversation_history.append(message)
\* Mutant of append_message: the transcript grows without refreshing
\* last_activity
append_message_untouched(sess, session_id, message, now) ==
    DictSet(sess, session_id,
            [history |-> Append(sess[session_id].history, message),
             last_activity |-> sess[session_id].last_activity])

append_message(sess, session_id, message, now) ==
    DictSet(sess, session_id,
            [history |-> Append(sess[session_id].history, message),
             last_activity |-> now])

\* conversation_history.append(message) alone
append_reply(sess, session_id, message) ==
    [sess EXCEPT ![session_id].history = Append(@, message)]

\* Mutant of chat: a failed upstream call is made once more
chat_retries(req_session_id, raw_message, uuid, upstream) ==
    LET validated == validate_message(raw_message)
        session_id == resolve_session_id(req_session_id, uuid)
        rl == check_rate_limit(rate_limit_tracker, session_id, clock)
        admitted == admit_session(sessions, rl.tracker, session_id, clock)
        created == create_session(admitted.sessions, session_id, clock)
        with_user == append_message(created, session_id,
                                    Message("user", validated.value), clock)
        window == sliding_window(with_user[session_id].history)
        with_reply == append_reply(with_user, session_id,
                                   Message("assistant", upstream.text))
    IN  /\ UNCHANGED <<clock, in_flight>>
        /\ IF validated.error
           THEN /\ response' = Answer("chat", 422, None)
                /\ sent' = <<>>
                /\ UNCHANGED <<sessions, rate_limit_tracker>>
           ELSE IF ~rl.allowed
           THEN /\ response' = Answer("chat", 429, session_id)
                /\ rate_limit_tracker' = rl.tracker
                /\ sent' = <<>>
                /\ UNCHANGED sessions
           ELSE IF admitted.full
           THEN /\ response' = Answer("chat", 503, session_id)
                /\ sessions' = admitted.sessions
                /\ rate_limit_tracker' = admitted.tracker
                /\ sent' = <<>>
           ELSE IF upstream.raises
           THEN /\ response' = Answer("chat", 500, session_id)
                /\ sessions' = with_user
                /\ rate_limit_tracker' = admitted.tracker
                /\ sent' = <<Call(window, upstream.raises),
                             Call(window, upstream.raises)>>
           ELSE /\ response' = [Answer("chat", 200, session_id) EXCEPT
                                   !.text = upstream.text,
                                   !.history_size =
                                       Len(with_reply[session_id].history)]
                /\ sessions' = with_reply
                /\ rate_limit_tracker' = admitted.tracker
                /\ sent' = <<Call(window, upstream.raises)>>

\* Mutant of chat: a failed upstream call undoes what the request did to the
\* session
chat_rolls_back(req_session_id, raw_message, uuid, upstream) ==
    LET validated == validate_message(raw_message)
        session_id == resolve_session_id(req_session_id, uuid)
        rl == check_rate_limit(rate_limit_tracker, session_id, clock)
        admitted == admit_session(sessions, rl.tracker, session_id, clock)
        created == create_session(admitted.sessions, session_id, clock)
        with_user == append_message(created, session_id,
                                    Message("user", validated.value), clock)
        window == sliding_window(with_user[session_id].history)
        with_reply == append_reply(with_user, session_id,
                                   Message("assistant", upstream.text))
    IN  /\ UNCHANGED <<clock, in_flight>>
        /\ IF validated.error
           THEN /\ response' = Answer("chat", 422, None)
                /\ sent' = <<>>
                /\ UNCHANGED <<sessions, rate_limit_tracker>>
           ELSE IF ~rl.allowed
           THEN /\ response' = Answer("chat", 429, session_id)
                /\ rate_limit_tracker' = rl.tracker
                /\ sent' = <<>>
                /\ UNCHANGED sessions
           ELSE IF admitted.full
           THEN /\ response' = Answer("chat", 503, session_id)
                /\ sessions' = admitted.sessions
                /\ rate_limit_tracker' = admitted.tracker
                /\ sent' = <<>>
           ELSE IF upstream.raises
           THEN /\ response' = Answer("chat", 500, session_id)
                /\ sessions' = admitted.sessions
                /\ rate_limit_tracker' = admitted.tracker
                /\ sent' = <<Call(window, upstream.raises)>>
           ELSE /\ response' = [Answer("chat", 200, session_id) EXCEPT
                                   !.text = upstream.text,
                                   !.history_size =
                                       Len(with_reply[session_id].history)]
                /\ sessions' = with_reply
                /\ rate_limit_tracker' = admitted.tracker
                /\ sent' = <<Call(window, upstream.raises)>>

\* Mutant of chat: the message is validated by the handler, after the rate
\* limiter was asked
chat_validates_late(req_session_id, raw_message, uuid, upstream) ==
    LET validated == validate_message(raw_message)
        session_id == resolve_session_id(req_session_id, uuid)
        rl == check_rate_limit(rate_limit_tracker, session_id, clock)
        admitted == admit_session(sessions, rl.tracker, session_id, clock)
        created == create_session(admitted.sessions, session_id, clock)
        with_user == append_message(created, session_id,
                                    Message("user", validated.value), clock)
        window == sliding_window(with_user[session_id].history)
        with_reply == append_reply(with_user, session_id,
                                   Message("assistant", upstream.text))
    IN  /\ UNCHANGED <<clock, in_flight>>
        /\ IF ~rl.allowed
           THEN /\ response' = Answer("chat", 429, session_id)
                /\ rate_limit_tracker' = rl.tracker
                /\ sent' = <<>>
                /\ UNCHANGED sessions
           ELSE IF validated.error
           THEN /\ response' = Answer("chat", 422, None)
                /\ rate_limit_tracker' = rl.tracker
                /\ sent' = <<>>
                /\ UNCHANGED sessions
           ELSE IF admitted.full
           THEN /\ response' = Answer("chat", 503, session_id)
                /\ sessions' = admitted.sessions
                /\ rate_limit_tracker' = admitted.tracker
                /\ sent' = <<>>
           ELSE IF upstream.raises
           THEN /\ response' = Answer("chat", 500, session_id)
                /\ sessions' = with_user
                /\ rate_limit_tracker' = admitted.tracker
                /\ sent' = <<Call(window, upstream.raises)>>
           ELSE /\ response' = [Answer("chat", 200, session_id) EXCEPT
                                   !.text = upstream.text,
                                   !.history_size =
                                       Len(with_reply[session_id].history)]
                /\ sessions' = with_reply
                /\ rate_limit_tracker' = admitted.tracker
                /\ sent' = <<Call(window, upstream.raises)>>

\* Mutant of chat: the rate limiter is asked after the session was admitted,
\* created and marked active
chat_limits_late(req_session_id, raw_message, uuid, upstream) ==
    LET validated == validate_message(raw_message)
        session_id == resolve_session_id(req_session_id, uuid)
        admitted == admit_session(sessions, rate_limit_tracker, session_id, clock)
        created == create_session(admitted.sessions, session_id, clock)
        rl == check_rate_limit(admitted.tracker, session_id, clock)
        with_user == append_message(created, session_id,
                                    Message("user", validated.value), clock)
        window == sliding_window(with_user[session_id].history)
        with_reply == append_reply(with_user, session_id,
                                   Message("assistant", upstream.text))
    IN  /\ UNCHANGED <<clock, in_flight>>
        /\ IF validated.error
           THEN /\ response' = Answer("chat", 422, None)
                /\ sent' = <<>>
                /\ UNCHANGED <<sessions, rate_limit_tracker>>
           ELSE IF admitted.full
           THEN /\ response' = Answer("chat", 503, session_id)
                /\ sessions' = admitted.sessions
                /\ rate_limit_tracker' = admitted.tracker
                /\ sent' = <<>>
           ELSE IF ~rl.allowed
           THEN /\ response' = Answer("chat", 429, session_id)
                /\ sessions' = [created EXCEPT ![session_id].last_activity = clock]
                /\ rate_limit_tracker' = rl.tracker
                /\ sent' = <<>>
           ELSE IF upstream.raises
           THEN /\ response' = Answer("chat", 500, session_id)
                /\ sessions' = with_user
                /\ rate_limit_tracker' = rl.tracker
                /\ sent' = <<Call(window, upstream.raises)>>
           ELSE /\ response' = [Answer("chat", 200, session_id) EXCEPT
                                   !.text = upstream.text,
                                   !.history_size =
                                       Len(with_reply[session_id].history)]
                /\ sessions' = with_reply
                /\ rate_limit_tracker' = rl.tracker
                /\ sent' = <<Call(window, upstream.raises)>>

\* req_session_id and raw_message are the request body; uuid is what
\* uuid.uuid4() would return; upstream is what client.messages.create does:
\* it raises, or it returns a reply text.
\* Mutant of chat: the generic handler catches the rejections raised inside
\* the try block too and answers 500 for them
chat_rewraps(req_session_id, raw_message, uuid, upstream) ==
    LET validated == validate_message(raw_message)
        session_id == resolve_session_id(req_session_id, uuid)
        rl == check_rate_limit(rate_limit_tracker, session_id, clock)
        admitted == admit_session(sessions, rl.tracker, session_id, clock)
        created == create_session(admitted.sessions, session_id, clock)
        with_user == append_message(created, session_id,
                                    Message("user", validated.value), clock)
        window == sliding_window(with_user[session_id].history)
        with_reply == append_reply(with_user, session_id,
                                   Message("assistant", upstream.text))
    IN  /\ UNCHANGED <<clock, in_flight>>
        /\ IF validated.error
           THEN \* pydantic rejects the body before the handler runs
                /\ response' = Answer("chat", 422, None)
                /\ sent' = <<>>
                /\ UNCHANGED <<sessions, rate_limit_tracker>>
           ELSE IF ~rl.allowed
           THEN /\ response' = Answer("chat", 500, session_id)
                /\ rate_limit_tracker' = rl.tracker
                /\ sent' = <<>>
                /\ UNCHANGED sessions
           ELSE IF admitted.full
           THEN /\ response' = Answer("chat", 500, session_id)
                /\ sessions' = admitted.sessions
                /\ rate_limit_tracker' = admitted.tracker
                /\ sent' = <<>>
           ELSE IF upstream.raises
           THEN /\ response' = Answer("chat", 500, session_id)
                /\ sessions' = with_user
                /\ rate_limit_tracker' = admitted.tracker
                /\ sent' = <<Call(window, upstream.raises)>>
           ELSE /\ response' = [Answer("chat", 200, session_id) EXCEPT
                                   !.text = upstream.text,
                                   !.history_size =
                                       Len(with_reply[session_id].history)]
                /\ sessions' = with_reply
                /\ rate_limit_tracker' = admitted.tracker
                /\ sent' = <<Call(window, upstream.raises)>>

\* Mutant of chat: the limiter's verdict is acted on after the eviction run
\* and the capacity check
chat_capacity_first(req_session_id, raw_message, uuid, upstream) ==
    LET validated == validate_message(raw_message)
        session_id == resolve_session_id(req_session_id, uuid)
        rl == check_rate_limit(rate_limit_tracker, session_id, clock)
        admitted == admit_session(sessions, rl.tracker, session_id, clock)
        created == create_session(admitted.sessions, session_id, clock)
        with_user == append_message(created, session_id,
                                    Message("user", validated.value), clock)
        window == sliding_window(with_user[session_id].history)
        with_reply == append_reply(with_user, session_id,
                                   Message("assistant", upstream.text))
    IN  /\ UNCHANGED <<clock, in_flight>>
        /\ IF validated.error
           THEN \* pydantic rejects the body before the handler runs
                /\ response' = Answer("chat", 422, None)
                /\ sent' = <<>>
                /\ UNCHANGED <<sessions, rate_limit_tracker>>
           ELSE IF admitted.full
           THEN /\ response' = Answer("chat", 503, session_id)
                /\ sessions' = admitted.sessions
                /\ rate_limit_tracker' = admitted.tracker
                /\ sent' = <<>>
           ELSE IF ~rl.allowed
           THEN /\ response' = Answer("chat", 429, session_id)
                /\ sessions' = admitted.sessions
                /\ rate_limit_tracker' = admitted.tracker
                /\ sent' = <<>>
           ELSE IF upstream.raises
           THEN /\ response' = Answer("chat", 500, session_id)
                /\ sessions' = with_user
                /\ rate_limit_tracker' = admitted.tracker
                /\ sent' = <<Call(window, upstream.raises)>>
           ELSE /\ response' = [Answer("chat", 200, session_id) EXCEPT
                                   !.text = upstream.text,
                                   !.history_size =
                                       Len(with_reply[session_id].history)]
                /\ sessions' = with_reply
                /\ rate_limit_tracker' = admitted.tracker
                /\ sent' = <<Call(window, upstream.raises)>>

chat(req_session_id, raw_message, uuid, upstream) ==
    LET validated == validate_message(raw_message)
        session_id == resolve_session_id(req_session_id, uuid)
        rl == check_rate_limit(rate_limit_tracker, session_id, clock)
        admitted == admit_session(sessions, rl.tracker, session_id, clock)
        created == create_session(admitted.sessions, session_id, clock)
        with_user == append_message(created, session_id,
                                    Message("user", validated.value), clock)
        window == sliding_window(with_user[session_id].history)
        with_reply == append_reply(with_user, session_id,
                                   Message("assistant", upstream.text))
    IN  /\ UNCHANGED <<clock, in_flight>>
        /\ IF validated.error
           THEN \* pydantic rejects the body before the handler runs
                /\ response' = Answer("chat", 422, None)
                /\ sent' = <<>>
                /\ UNCHANGED <<sessions, rate_limit_tracker>>
           ELSE IF ~rl.allowed
           THEN /\ response' = Answer("chat", 429, session_id)
                /\ rate_limit_tracker' = rl.tracker
                /\ sent' = <<>>
                /\ UNCHANGED sessions
           ELSE IF admitted.full
           THEN /\ response' = Answer("chat", 503, session_id)
                /\ sessions' = admitted.sessions
                /\ rate_limit_tracker' = admitted.tracker
                /\ sent' = <<>>
           ELSE IF upstream.raises
           THEN /\ response' = Answer("chat", 500, session_id)
                /\ sessions' = with_user
                /\ rate_limit_tracker' = admitted.tracker
                /\ sent' = <<Call(window, upstream.raises)>>
           ELSE /\ response' = [Answer("chat", 200, session_id) EXCEPT
                                   !.text = upstream.text,
                                   !.history_size =
                                       Len(with_reply[session_id].history)]
                /\ sessions' = with_reply
                /\ rate_limit_tracker' = admitted.tracker
                /\ sent' = <<Call(window, upstream.raises)>>

\* ------------------------------------------------------------ POST /chat, in two halves
\* The handler is a coroutine that never awaits and client is the blocking
\* Anthropic client: from the moment a handler calls client.messages.create
\* until the call returns, the one thread of the event loop is inside that
\* call and starts no other handler.
\* Mutant of event_loop_free: the call is awaited, the loop serves other
\* requests meanwhile
event_loop_free_awaited == TRUE

event_loop_free == in_flight = <<>>

Pending(session_id, window) == [session_id |-> session_id, window |-> window]

Without(requests, i) ==
    [j \in 1..(Len(requests) - 1) |->
        IF j < i THEN requests[j] ELSE requests[j + 1]]

\* chat up to the call of client.messages.create
chat_begin(req_session_id, raw_message, uuid) ==
    LET validated == validate_message(raw_message)
        session_id == resolve_session_id(req_session_id, uuid)
        rl == check_rate_limit(rate_limit_tracker, session_id, clock)
        admitted == admit_session(sessions, rl.tracker, session_id, clock)
        created == create_session(admitted.sessions, session_id, clock)
        with_user == append_message(created, session_id,
                                    Message("user", validated.value), clock)
        window == sliding_window(with_user[session_id].history)
    IN  /\ event_loop_free
        /\ UNCHANGED clock
        /\ sent' = <<>>
        /\ IF validated.error
           THEN /\ response' = Answer("chat", 422, None)
                /\ UNCHANGED <<sessions, rate_limit_tracker, in_flight>>
           ELSE IF ~rl.allowed
           THEN /\ response' = Answer("chat", 429, session_id)
                /\ rate_limit_tracker' = rl.tracker
                /\ UNCHANGED <<sessions, in_flight>>
           ELSE IF admitted.full
           THEN /\ response' = Answer("chat", 503, session_id)
                /\ sessions' = admitted.sessions
                /\ rate_limit_tracker' = admitted.tracker
                /\ UNCHANGED in_flight
           ELSE /\ response' = NoResponse
                /\ sessions' = with_user
                /\ rate_limit_tracker' = admitted.tracker
                /\ in_flight' = Append(in_flight, Pending(session_id, window))

\* chat from the return of client.messages.create on, for the i-th request
\* in flight; conversation_history is the list the session held at the call
chat_end(i, upstream) ==
    LET session_id == in_flight[i].session_id
        with_reply == append_reply(sessions, session_id,
                                   Message("assistant", upstream.text))
    IN  /\ i \in DOMAIN in_flight
        /\ session_id \in DOMAIN sessions
        /\ in_flight' = Without(in_flight, i)
        /\ sent' = <<Call(in_flight[i].window, upstream.raises)>>
        /\ UNCHANGED <<rate_limit_tracker, clock>>
        /\ IF upstream.raises
           THEN /\ response' = Answer("chat", 500, session_id)
                /\ UNCHANGED sessions
           ELSE /\ response' = [Answer("chat", 200, session_id) EXCEPT
                                   !.text = upstream.text,
                                   !.history_size =
                                       Len(with_reply[session_id].history)]
                /\ sessions' = with_reply

\* ------------------------------------------------------------ POST /clear
\* Mutant of clear_history: an unknown session is created empty instead of
\* being reported
clear_history_creates(session_id) ==
    /\ response' = Answer("clear", 200, session_id)
    /\ sessions' = DictSet(sessions, session_id,
                           [history |-> <<>>, last_activity |-> clock])
    /\ sent' = <<>>
    /\ UNCHANGED <<rate_limit_tracker, clock, in_flight>>

\* Mutant of clear_history: the rate-limit record is cleared with the
\* transcript
clear_history_resets_limit(session_id) ==
    IF session_id \notin DOMAIN sessions
    THEN /\ response' = Answer("clear", 404, session_id)
         /\ sent' = <<>>
         /\ UNCHANGED <<sessions, rate_limit_tracker, clock, in_flight>>
    ELSE /\ response' = Answer("clear", 200, session_id)
         /\ sessions' = DictSet(sessions, session_id,
                                [history |-> <<>>, last_activity |-> clock])
         /\ rate_limit_tracker' = DictDel(rate_limit_tracker, {session_id})
         /\ sent' = <<>>
         /\ UNCHANGED <<clock, in_flight>>

\* Mutant of clear_history: a session whose transcript is already empty is
\* reported unknown
clear_history_once(session_id) ==
    IF \/ session_id \notin DOMAIN sessions
       \/ sessions[session_id].history = <<>>
    THEN /\ response' = Answer("clear", 404, session_id)
         /\ sent' = <<>>
         /\ UNCHANGED <<sessions, rate_limit_tracker, clock, in_flight>>
    ELSE /\ response' = Answer("clear", 200, session_id)
         /\ sessions' = DictSet(sessions, session_id,
                                [history |-> <<>>, last_activity |-> clock])
         /\ sent' = <<>>
         /\ UNCHANGED <<rate_limit_tracker, clock, in_flight>>

\* Mutant of clear_history: the session is removed from the store
clear_history_deletes(session_id) ==
    IF session_id \notin DOMAIN sessions
    THEN /\ response' = Answer("clear", 404, session_id)
         /\ sent' = <<>>
         /\ UNCHANGED <<sessions, rate_limit_tracker, clock, in_flight>>
    ELSE /\ response' = Answer("clear", 200, session_id)
         /\ sessions' = DictDel(sessions, {session_id})
         /\ sent' = <<>>
         /\ UNCHANGED <<rate_limit_tracker, clock, in_flight>>

clear_history(session_id) ==
    IF session_id \notin DOMAIN sessions
    THEN /\ response' = Answer("clear", 404, session_id)
         /\ sent' = <<>>
         /\ UNCHANGED <<sessions, rate_limit_tracker, clock, in_flight>>
    ELSE /\ response' = Answer("clear", 200, session_id)
         /\ sessions' = DictSet(sessions, session_id,
                                [history |-> <<>>, last_activity |-> clock])
         /\ sent' = <<>>
         /\ UNCHANGED <<rate_limit_tracker, clock, in_flight>>

\* ------------------------------------------------------------ GET /history/{id}
\* Mutant of get_history: reading a session counts as activity
get_history_touches(session_id) ==
    /\ response' =
          IF session_id \notin DOMAIN sessions
          THEN Answer("history", 404, session_id)
          ELSE [Answer("history", 200, session_id) EXCEPT
                   !.history_size = Len(sessions[session_id].history),
                   !.history = sessions[session_id].history]
    /\ sessions' =
          IF session_id \notin DOMAIN sessions
          THEN sessions
          ELSE [sessions EXCEPT ![session_id].last_activity = clock]
    /\ sent' = <<>>
    /\ UNCHANGED <<rate_limit_tracker, clock, in_flight>>

get_history(session_id) ==
    /\ response' =
          IF session_id \notin DOMAIN sessions
          THEN Answer("history", 404, session_id)
          ELSE [Answer("history", 200, session_id) EXCEPT
                   !.history_size = Len(sessions[session_id].history),
                   !.history = sessions[session_id].history]
    /\ sent' = <<>>
    /\ UNCHANGED <<sessions, rate_limit_tracker, clock, in_flight>>

\* ------------------------------------------------------------ GET /sessions
list_sessions ==
    /\ response' = [Answer("sessions", 200, None) EXCEPT
                       !.sessions_remaining = Cardinality(DOMAIN sessions)]
    /\ sent' = <<>>
    /\ UNCHANGED <<sessions, rate_limit_tracker, clock, in_flight>>

\* ------------------------------------------------------------ POST /cleanup-sessions
cleanup_old_sessions ==
    LET cleaned == cleanup_inactive_sessions(sessions, rate_limit_tracker, clock)
    IN  /\ response' = [Answer("cleanup", 200, None) EXCEPT
                           !.sessions_removed = cleaned.removed,
                           !.sessions_remaining = Cardinality(DOMAIN cleaned.sessions)]
        /\ sessions' = cleaned.sessions
        /\ rate_limit_tracker' = cleaned.tracker
        /\ sent' = <<>>
        /\ UNCHANGED <<clock, in_flight>>

\* ------------------------------------------------------------ time
\* d seconds pass with no request being handled
Tick(d) ==
    /\ clock' = clock + d
    /\ response' = NoResponse
    /\ sent' = <<>>
    /\ UNCHANGED <<sessions, rate_limit_tracker, in_flight>>

\* ------------------------------------------------------------ requests
\* The answers the upstream gives.
Raises == [raises |-> TRUE, text |-> <<>>]

Replies(texts) == {[raises |-> FALSE, text |-> t] : t \in texts}

\* uuid.uuid4() returns an identifier no session and no rate-limit record has
Fresh(ids) == ids \ ((DOMAIN sessions) \cup (DOMAIN rate_limit_tracker))

HistoryLen(session_id) ==
    IF session_id \in DOMAIN sessions THEN Len(sessions[session_id].history) ELSE 0

\* Requests of session_id admitted within the rate window that ends now
Recent(session_id) ==
    IF session_id \in DOMAIN rate_limit_tracker
    THEN Len(SelectSeq(rate_limit_tracker[session_id],
                       LAMBDA ts : ts > clock - RATE_LIMIT_WINDOW_SECONDS))
    ELSE 0

\* What the step is seen to do, besides its answer
Observed == evicted' = (DOMAIN sessions) \ (DOMAIN sessions')

Unlogged == Observed /\ UNCHANGED log

Logged ==
    /\ Observed
    /\ log' = Append(log, [time |-> clock, session_id |-> response'.session_id,
                           status |-> response'.status])

\* The request just handled: the session id given in it, the one it is
\* for (the given one, or the one generated for it), its message raw, and
\* the answer the upstream stood by with
Requested(given, session_id, raw, upstream) ==
    /\ Observed
    /\ log' = <<[time |-> clock, given |-> given, session_id |-> session_id,
                 status |-> response'.status, message |-> raw,
                 reply |-> upstream.text]>>

\* ------------------------------------------------------------ Spec: the store
\* Five clients, so that one more than MAX_CONCURRENT_SESSIONS can ask for a
\* session.  Each sends at most StoreMaxRecent messages per rate window and
\* stops at a transcript of StoreMaxHistory entries.  The clients of
\* StoreProbe also clear and read their transcript and see the upstream fail.
\* Time moves once, by the inactivity timeout exactly or by one second more.
StoreIds == {"s1", "s2", "s3", "s4", "s5"}
StoreProbe == {"s1"}
StoreMessages == {<<" ", "o", "i", "\n">>, <<" ", "\n">>}
StoreSteps == {Timeout, Timeout + 1}
StoreMaxHistory == 4
StoreMaxRecent == 1
StoreMaxTicks == 1

Init ==
    /\ sessions = EmptyDict
    /\ rate_limit_tracker = EmptyDict
    /\ clock = 0
    /\ response = NoResponse
    /\ sent = <<>>
    /\ evicted = {}
    /\ log = <<>>
    /\ in_flight = <<>>

StoreChat ==
    \E session_id \in StoreIds, raw \in StoreMessages,
       upstream \in {Raises} \cup Replies({<<"o", "k">>}) :
        /\ upstream.raises => session_id \in StoreProbe
        /\ HistoryLen(session_id) < StoreMaxHistory
        /\ Recent(session_id) < StoreMaxRecent
        /\ chat(session_id, raw, session_id, upstream)
        /\ Unlogged

StoreChatNoId ==
    \E req \in {None, ""}, uuid \in Fresh(StoreIds), raw \in StoreMessages,
       upstream \in Replies({<<"o", "k">>}) :
        /\ chat(req, raw, uuid, upstream)
        /\ Unlogged

StoreClear ==
    \E session_id \in StoreProbe : clear_history(session_id) /\ Unlogged

StoreHistory ==
    \E session_id \in StoreProbe : get_history(session_id) /\ Unlogged

StoreSessions == list_sessions /\ Unlogged

StoreCleanup == cleanup_old_sessions /\ Unlogged

StoreTick ==
    \E d \in StoreSteps :
        /\ clock + d <= StoreMaxTicks * (Timeout + 1)
        /\ Tick(d)
        /\ Unlogged

Next ==
    \/ StoreChat
    \/ StoreChatNoId
    \/ StoreClear
    \/ StoreHistory
    \/ StoreSessions
    \/ StoreCleanup
    \/ StoreTick

Spec == Init /\ [][Next]_vars

\* ------------------------------------------------------------ SpecWindow: a long transcript
\* One session that already holds k complete turns, all sent at time 0 with
\* numbered texts, and then goes on past SLIDING_WINDOW_SIZE entries, up to
\* WindowMaxHistory.  The client writes to the long transcript only: once it
\* has cleared it, it sends no further message.  The last /chat request is
\* kept with the message it carried.
Digits == <<"0", "1", "2", "3", "4", "5", "6", "7", "8", "9">>

Numbered(prefix, n) == <<prefix, Digits[(n \div 10) + 1], Digits[(n % 10) + 1]>>

Turns(k) ==
    [i \in 1..(2 * k) |->
        IF i % 2 = 1
        THEN Message("user", Numbered("m", (i + 1) \div 2))
        ELSE Message("assistant", Numbered("r", i \div 2))]

WindowId == "s1"
WindowMessages == {<<"o", "i">>, <<" ", "a", "\n">>, <<" ">>}
WindowMinTurns == 9
WindowMaxHistory == 24
WindowMaxClock == 120
WindowStep == 60

InitWindow ==
    \E k \in WindowMinTurns..RATE_LIMIT_MAX_REQUESTS :
        /\ sessions = DictSet(EmptyDict, WindowId,
                              [history |-> Turns(k), last_activity |-> 0])
        /\ rate_limit_tracker = DictSet(EmptyDict, WindowId, [i \in 1..k |-> 0])
        /\ clock = 0
        /\ response = NoResponse
        /\ sent = <<>>
        /\ evicted = {}
    /\ log = <<>>
    /\ in_flight = <<>>

WindowChat ==
    \E raw \in WindowMessages, upstream \in {Raises} \cup Replies({<<"o", "k">>}) :
        /\ HistoryLen(WindowId) >= 2 * WindowMinTurns
        /\ HistoryLen(WindowId) + 2 <= WindowMaxHistory
        /\ chat(WindowId, raw, WindowId, upstream)
        /\ Requested(WindowId, WindowId, raw, upstream)

WindowClear == clear_history(WindowId) /\ Unlogged

WindowHistory == get_history(WindowId) /\ Unlogged

WindowTick ==
    /\ clock + WindowStep <= WindowMaxClock
    /\ Tick(WindowStep)
    /\ Unlogged

NextWindow ==
    \/ WindowChat
    \/ WindowClear
    \/ WindowHistory
    \/ WindowTick

SpecWindow == InitWindow /\ [][NextWindow]_vars

\* ------------------------------------------------------------ SpecRate: the rate limiter
\* One client that sends up to RateMaxRequests messages while time moves in
\* steps of RateStep seconds up to RateMaxClock; every request is logged.
RateId == "s1"
RateMessages == {<<"o", "i">>}
RateMaxRequests == 12
RateMaxClock == 120
RateStep == 30

RateChat ==
    \E raw \in RateMessages, upstream \in Replies({<<"o", "k">>}) :
        /\ Len(log) < RateMaxRequests
        /\ chat(RateId, raw, RateId, upstream)
        /\ Logged

RateTick ==
    /\ clock + RateStep <= RateMaxClock
    /\ Tick(RateStep)
    /\ Unlogged

NextRate ==
    \/ RateChat
    \/ RateTick

SpecRate == Init /\ [][NextRate]_vars


\* ------------------------------------------------------------ claims
IsPrefix(a, b) == Len(a) <= Len(b) /\ SubSeq(b, 1, Len(a)) = a

Min(a, b) == IF a <= b THEN a ELSE b

\* The step just taken handled a /chat request and answered it with status
ChatAnswered(status) == response'.endpoint = "chat" /\ response'.status = status

\* C1: every message list handed to the upstream by a /chat request has at
\* most SLIDING_WINDOW_SIZE entries, whatever the length of the stored
\* transcript.
C1_WindowBounded ==
    \A i \in 1..Len(sent) : Len(sent[i].messages) <= SLIDING_WINDOW_SIZE

\* A transcript longer than the window was sent, cut to the window size.
C1_Witness ==
    /\ Len(sent) = 1
    /\ Len(sent[1].messages) = SLIDING_WINDOW_SIZE
    /\ HistoryLen(response.session_id) > SLIDING_WINDOW_SIZE + 1

\* The transcript as /chat saw it right after appending the user message:
\* the stored one, less the assistant reply a successful request added.
C2_Transcript ==
    LET history == sessions[response.session_id].history
    IN  IF response.status = 200
        THEN SubSeq(history, 1, Len(history) - 1)
        ELSE history

\* C2: the list sent upstream is the last min(len(T), K) elements of the
\* transcript T taken after the user message was appended, in their order;
\* it is all of T when len(T) <= K.
C2_WindowIsTail ==
    \A c \in 1..Len(sent) :
        LET T == C2_Transcript
            n == Min(Len(T), SLIDING_WINDOW_SIZE)
            w == sent[c].messages
        IN  /\ Len(w) = n
            /\ \A i \in 1..n : w[i] = T[Len(T) - n + i]
            /\ Len(T) <= SLIDING_WINDOW_SIZE => w = T

\* A window that dropped the oldest messages of its transcript.
C2_Witness ==
    /\ Len(sent) = 1
    /\ Len(C2_Transcript) > SLIDING_WINDOW_SIZE
    /\ sent[1].messages[1] # C2_Transcript[1]

\* C3: a /chat request leaves the entries a transcript already holds as they
\* are and appends after them (two entries on success), also past the window
\* size; a transcript gets shorter only by /clear, which empties it.
C3_AppendOnly ==
    [][\A session_id \in (DOMAIN sessions) \cap (DOMAIN sessions') :
          LET old == sessions[session_id].history
              new == sessions'[session_id].history
          IN  /\ response'.endpoint = "chat" => IsPrefix(old, new)
              /\ (ChatAnswered(200) /\ response'.session_id = session_id)
                     => Len(new) = Len(old) + 2
              /\ ~IsPrefix(old, new)
                     => /\ response'.endpoint = "clear"
                        /\ response'.session_id = session_id
                        /\ new = <<>>]_vars

\* A successful /chat on a transcript that was already longer than the window.
C3_Witness ==
    /\ response.endpoint = "chat"
    /\ response.status = 200
    /\ HistoryLen(response.session_id) > SLIDING_WINDOW_SIZE + 2

\* ------------------------------------------------------------ claims on the store
\* The sessions an eviction run made now would find inactive
Inactive ==
    {session_id \in DOMAIN sessions :
        sessions[session_id].last_activity < clock - Timeout}

\* The step just taken handled a /chat request that passed validation and the
\* rate limiter
ChatAdmitted == response'.endpoint = "chat" /\ response'.status \notin {422, 429}

\* The step just taken made an eviction run: /cleanup-sessions, or an
\* admitted /chat for an identifier that has no session
EvictionRun ==
    \/ response'.endpoint = "cleanup"
    \/ ChatAdmitted /\ response'.session_id \notin DOMAIN sessions

\* C4: from the empty store and after any sequence of requests, the store
\* never holds more than MAX_CONCURRENT_SESSIONS sessions.
C4_StoreCapped == Cardinality(DOMAIN sessions) <= MAX_CONCURRENT_SESSIONS

\* The store is full and a request for one more session was turned away.
C4_Witness ==
    /\ Cardinality(DOMAIN sessions) = MAX_CONCURRENT_SESSIONS
    /\ response.endpoint = "chat"
    /\ response.status = 503

\* The store is full and an eviction run would remove nothing.
C5_Full ==
    /\ Cardinality(DOMAIN sessions) = MAX_CONCURRENT_SESSIONS
    /\ Inactive = {}

\* C5: with the store full and no session inactive beyond the timeout, an
\* admitted /chat for an identifier that has no session (given or generated)
\* is answered 503 without an upstream call, while one for a stored session
\* goes to the upstream and is answered 200 with its reply (500 only if the
\* upstream call itself raised).
C5_CapacityError ==
    [][(C5_Full /\ ChatAdmitted)
          => IF response'.session_id \in DOMAIN sessions
             THEN /\ Len(sent') = 1
                  /\ response'.status = IF sent'[1].raised THEN 500 ELSE 200
             ELSE /\ response'.status = 503
                  /\ sent' = <<>>]_vars

\* In a full store with nothing to evict, a stored session got its second
\* answer while another identifier holds the rate-limit record of a request
\* that was turned away.
C5_Witness ==
    /\ C5_Full
    /\ clock = Timeout
    /\ response.endpoint = "chat"
    /\ response.status = 200
    /\ HistoryLen(response.session_id) = 4
    /\ (DOMAIN rate_limit_tracker) \ (DOMAIN sessions) # {}

\* C6: a /chat request answered with the capacity error leaves the store as
\* it was: no session added or removed, no transcript or last_activity
\* changed.
C6_CapacityErrorKeepsStore ==
    [][ChatAnswered(503) => sessions' = sessions /\ evicted' = {}]_vars

\* A capacity error given when every stored session was exactly at the
\* cutoff of the eviction run that preceded it.
C6_Witness ==
    /\ response.endpoint = "chat"
    /\ response.status = 503
    /\ clock = Timeout
    /\ \A session_id \in DOMAIN sessions : sessions[session_id].last_activity = 0

\* C7: with the store full and at least one session inactive beyond the
\* timeout, an admitted /chat for an identifier that has no session evicts
\* the inactive sessions, creates its session and goes on to the upstream
\* call instead of answering 503.
C7_InactiveSlotReused ==
    [][(/\ Cardinality(DOMAIN sessions) = MAX_CONCURRENT_SESSIONS
        /\ Inactive # {}
        /\ ChatAdmitted
        /\ response'.session_id \notin DOMAIN sessions)
          => /\ response'.status \in {200, 500}
             /\ evicted' = Inactive
             /\ response'.session_id \in DOMAIN sessions'
             /\ Len(sent') = 1]_vars

\* A new session was created in a store that was full, in the slot of an
\* evicted one, next to sessions that stayed.
C7_Witness ==
    /\ response.endpoint = "chat"
    /\ response.status = 200
    /\ evicted # {}
    /\ Cardinality(DOMAIN sessions) > 1
    /\ Cardinality(DOMAIN sessions) - 1 + Cardinality(evicted)
          = MAX_CONCURRENT_SESSIONS

\* C8: an eviction run at time now removes exactly the sessions whose
\* last_activity is older than now minus the timeout and leaves every other
\* session as it was; /cleanup-sessions reports the number removed and the
\* number left.
C8_EvictsExactlyInactive ==
    [][EvictionRun
          => /\ evicted' = Inactive
             /\ \A session_id \in (DOMAIN sessions) \ Inactive :
                    /\ session_id \in DOMAIN sessions'
                    /\ sessions'[session_id] = sessions[session_id]
             /\ response'.endpoint = "cleanup"
                    => /\ DOMAIN sessions' = (DOMAIN sessions) \ Inactive
                       /\ response'.sessions_removed = Cardinality(Inactive)
                       /\ response'.sessions_remaining
                              = Cardinality(DOMAIN sessions')]_vars

\* /cleanup-sessions removed some sessions and kept others.
C8_Witness ==
    /\ response.endpoint = "cleanup"
    /\ response.sessions_removed = Cardinality(evicted)
    /\ evicted # {}
    /\ response.sessions_remaining > 0

\* C9: an eviction run removes the rate-limit record of every session it
\* evicts and leaves the record of every other identifier as it was (the
\* record of the requesting identifier is the rate limiter's to change).
C9_EvictionDropsRecords ==
    [][EvictionRun
          => /\ \A session_id \in evicted' :
                    session_id \notin DOMAIN rate_limit_tracker'
             /\ \A session_id \in ((DOMAIN rate_limit_tracker)
                                    \cup (DOMAIN rate_limit_tracker'))
                                   \ (evicted' \cup {response'.session_id}) :
                    /\ session_id \in DOMAIN rate_limit_tracker
                    /\ session_id \in DOMAIN rate_limit_tracker'
                    /\ rate_limit_tracker'[session_id]
                           = rate_limit_tracker[session_id]]_vars

\* An eviction run removed sessions while records of other identifiers, one
\* of them without a session, stayed.
C9_Witness ==
    /\ response.endpoint = "cleanup"
    /\ evicted # {}
    /\ (DOMAIN rate_limit_tracker) \ (DOMAIN sessions) # {}
    /\ (DOMAIN rate_limit_tracker) \cap (DOMAIN sessions) # {}

\* ------------------------------------------------------------ claims on the rate limiter
\* The logged requests of session_id, by their place in the log
RequestsOf(session_id) == {i \in 1..Len(log) : log[i].session_id = session_id}

\* Request i was let through by the rate limiter
WasAdmitted(i) == log[i].status \in {200, 500, 503}

\* The requests of the same identifier admitted before request j and less
\* than RATE_LIMIT_WINDOW_SECONDS before it
AdmittedInSpan(j) ==
    {i \in RequestsOf(log[j].session_id) :
        /\ i < j
        /\ WasAdmitted(i)
        /\ log[j].time - log[i].time < RATE_LIMIT_WINDOW_SECONDS}

\* C10: a request that comes when RATE_LIMIT_MAX_REQUESTS requests of its
\* identifier were admitted inside the RATE_LIMIT_WINDOW_SECONDS before it is
\* answered 429; and the first request of the identifier to be admitted or
\* refused after a 429, if it comes more than RATE_LIMIT_WINDOW_SECONDS after
\* that 429, is admitted.
C10_RateLimited ==
    \A j \in 1..Len(log) :
        /\ Cardinality(AdmittedInSpan(j)) >= RATE_LIMIT_MAX_REQUESTS
              => log[j].status = 429
        /\ \A i \in RequestsOf(log[j].session_id) :
              (/\ i < j
               /\ log[i].status = 429
               /\ log[j].time > log[i].time + RATE_LIMIT_WINDOW_SECONDS
               /\ \A k \in RequestsOf(log[j].session_id) :
                      i < k /\ k < j => ~WasAdmitted(k))
                  => WasAdmitted(j)

\* RATE_LIMIT_MAX_REQUESTS requests were admitted, the next one was refused
\* and the one after it, more than a window later, was admitted.
C10_Witness ==
    /\ Len(log) = RATE_LIMIT_MAX_REQUESTS + 2
    /\ \A i \in 1..RATE_LIMIT_MAX_REQUESTS : WasAdmitted(i)
    /\ log[RATE_LIMIT_MAX_REQUESTS + 1].status = 429
    /\ WasAdmitted(RATE_LIMIT_MAX_REQUESTS + 2)
    /\ log[RATE_LIMIT_MAX_REQUESTS + 2].time
          > log[RATE_LIMIT_MAX_REQUESTS + 1].time + RATE_LIMIT_WINDOW_SECONDS

\* The requests of the same identifier admitted before request j and at most
\* RATE_LIMIT_WINDOW_SECONDS before it
AdmittedInClosedSpan(j) ==
    {i \in RequestsOf(log[j].session_id) :
        /\ i < j
        /\ WasAdmitted(i)
        /\ log[j].time - log[i].time <= RATE_LIMIT_WINDOW_SECONDS}

\* The last step handled a /chat request that the rate limiter let through
LimiterAdmitted ==
    response.endpoint = "chat" /\ response.status \in {200, 500, 503}

\* C11 as stated: a request at time now is admitted exactly when fewer than
\* RATE_LIMIT_MAX_REQUESTS requests of its identifier were admitted at times
\* t >= now - RATE_LIMIT_WINDOW_SECONDS, a timestamp exactly one window old
\* still counting.
C11_ClosedWindow ==
    \A j \in 1..Len(log) :
        WasAdmitted(j)
            <=> Cardinality(AdmittedInClosedSpan(j)) < RATE_LIMIT_MAX_REQUESTS

\* C11, amended: a request at time now is admitted exactly when fewer than
\* RATE_LIMIT_MAX_REQUESTS requests of its identifier were admitted at times
\* t > now - RATE_LIMIT_WINDOW_SECONDS (a timestamp exactly one window old no
\* longer counts); the first request of an identifier is admitted; and an
\* admitted request leaves now as the last timestamp of the record, after
\* the timestamps that still count.
C11_OpenWindow ==
    /\ \A j \in 1..Len(log) :
          /\ WasAdmitted(j)
                <=> Cardinality(AdmittedInSpan(j)) < RATE_LIMIT_MAX_REQUESTS
          /\ RequestsOf(log[j].session_id) \cap 1..(j - 1) = {} => WasAdmitted(j)
    /\ LimiterAdmitted
          => LET record == rate_limit_tracker[response.session_id]
             IN  /\ record # <<>>
                 /\ record[Len(record)] = clock
                 /\ Len(record) = Cardinality(AdmittedInSpan(Len(log))) + 1

\* A request was admitted exactly one window after RATE_LIMIT_MAX_REQUESTS
\* admitted ones, and its timestamp is the only one left in the record.
C11_Witness ==
    /\ LimiterAdmitted
    /\ Len(log) = RATE_LIMIT_MAX_REQUESTS + 1
    /\ \A i \in 1..RATE_LIMIT_MAX_REQUESTS : WasAdmitted(i) /\ log[i].time = 0
    /\ clock = RATE_LIMIT_WINDOW_SECONDS
    /\ rate_limit_tracker[response.session_id] = <<clock>>

\* C12: a /chat request that the rate limiter rejects leaves the timestamp
\* record of its identifier, and every other record, with the contents it
\* had before: the pruning done before the rejection drops nothing.
C12_RejectionKeepsRecord ==
    [][ChatAnswered(429)
          => /\ response'.session_id \in DOMAIN rate_limit_tracker
             /\ rate_limit_tracker' = rate_limit_tracker]_vars

\* A request was rejected on a record that holds timestamps of two
\* different times.
C12_Witness ==
    /\ response.endpoint = "chat"
    /\ response.status = 429
    /\ LET record == rate_limit_tracker[response.session_id]
       IN  /\ Len(record) = RATE_LIMIT_MAX_REQUESTS
           /\ record[1] < record[Len(record)]

\* ------------------------------------------------------------ SpecPair: two clients at the limits
\* A full store whose sessions each took k = PairPrior turns, seen at the
\* time the inactivity cutoff reaches 0.  All took their turns at time 0,
\* except that one client sent its k requests just now: either PairKnown,
\* which owns a
\* session, or PairNew, which owns none and was turned away each time.  The
\* two go on sending, each its own text, some of it blank, until the
\* transcript passes PairMaxHistory, while time moves in steps of PairStep
\* up to PairMaxClock.  The upstream fails
\* only on a transcript of at least PairPrior turns.
PairIds == {"s1", "s2", "s3", "s4"}
PairKnown == "s1"
PairNew == "s5"
PairPrior == 8
PairMaxHistory == 20
PairStep == 30
PairMaxClock == 360

\* The transcript of k complete turns of session_id
PairTurns(session_id, k) ==
    [i \in 1..(2 * k) |->
        IF i % 2 = 1
        THEN Message("user", <<session_id, Digits[((i + 1) \div 2) + 1]>>)
        ELSE Message("assistant", <<"r", session_id>>)]

PairMessages(session_id) == {<<" ", session_id, "!", "\n">>, <<" ", "\n">>}

InitPair ==
    \E k \in {PairPrior}, busy \in {PairKnown, PairNew} :
        /\ sessions =
              [session_id \in PairIds |->
                  IF session_id = busy
                  THEN [history |-> PairTurns(session_id, k),
                        last_activity |-> Timeout]
                  ELSE [history |-> PairTurns(session_id, k),
                        last_activity |-> 0]]
        /\ rate_limit_tracker =
              [session_id \in PairIds \cup {busy} |->
                  [i \in 1..k |-> IF session_id = busy THEN Timeout ELSE 0]]
        /\ clock = Timeout
        /\ response = NoResponse
        /\ sent = <<>>
        /\ evicted = {}
        /\ log = <<>>
        /\ in_flight = <<>>

PairChat ==
    \E session_id \in {PairKnown, PairNew} :
        \E raw \in PairMessages(session_id),
           upstream \in {Raises} \cup Replies({<<"r", session_id>>}) :
            /\ HistoryLen(session_id) <= PairMaxHistory
            /\ upstream.raises => HistoryLen(session_id) >= 2 * PairPrior
            /\ chat(session_id, raw, session_id, upstream)
            /\ Unlogged

PairCleanup == cleanup_old_sessions /\ Unlogged

PairTick ==
    /\ clock + PairStep <= PairMaxClock
    /\ Tick(PairStep)
    /\ Unlogged

NextPair ==
    \/ PairChat
    \/ PairCleanup
    \/ PairTick

SpecPair == InitPair /\ [][NextPair]_vars

\* ------------------------------------------------------------ claims on requests turned away
\* C13: a /chat request rejected by the rate limiter creates no session,
\* appends no message, refreshes no last_activity, makes no eviction run (no
\* session leaves the store, though some are inactive) and no upstream call.
C13_RejectedChangesNothing ==
    [][ChatAnswered(429)
          => /\ sessions' = sessions
             /\ evicted' = {}
             /\ sent' = <<>>]_vars

\* A request for an identifier without session was rejected by the rate
\* limiter while the store was full of sessions an eviction run would remove.
C13_Witness ==
    /\ response.endpoint = "chat"
    /\ response.status = 429
    /\ response.session_id \notin DOMAIN sessions
    /\ Cardinality(DOMAIN sessions) = MAX_CONCURRENT_SESSIONS
    /\ Inactive # {}

\* Whether the rate limiter would admit a request of session_id made d
\* seconds from now, given the records in tracker
WouldAdmit(tracker, session_id, d) ==
    check_rate_limit(tracker, session_id, clock + d).allowed

\* The timestamps of session_id in tracker that a check made now would count
Counted(tracker, session_id) ==
    IF session_id \in DOMAIN tracker
    THEN SelectSeq(tracker[session_id],
                   LAMBDA ts : ts > clock - RATE_LIMIT_WINDOW_SECONDS)
    ELSE <<>>

\* C14: a step that is not a /chat request of session id A (a request of
\* another identifier that is admitted, rejected or makes an eviction run, a
\* maintenance call) leaves the timestamps that count for A as they were,
\* and with them the rate limiter's answer to a request A makes now, one
\* step later or a full window later.
C14_LimiterPerSession ==
    [][\A A \in {PairKnown, PairNew} :
          (clock' = clock /\ response'.session_id # A)
              => /\ Counted(rate_limit_tracker', A) = Counted(rate_limit_tracker, A)
                 /\ \A d \in {0, PairStep, RATE_LIMIT_WINDOW_SECONDS} :
                        WouldAdmit(rate_limit_tracker', A, d)
                            = WouldAdmit(rate_limit_tracker, A, d)]_vars

\* A request of one identifier was admitted and its eviction run removed the
\* session and the rate-limit record of the other.
C14_Witness ==
    /\ response.endpoint = "chat"
    /\ response.status = 200
    /\ response.session_id = PairNew
    /\ PairKnown \in evicted
    /\ PairKnown \notin DOMAIN rate_limit_tracker

\* ------------------------------------------------------------ claims on isolation
\* The session a message of SpecPair was written for: a user text <<id, ...>>
\* or the upstream's reply <<"r", id>> to it
Owner(message) ==
    IF message.role = "user" THEN message.content[1] ELSE message.content[2]

\* C15: every entry of a stored transcript was appended by a /chat request
\* for that session id, and every message of a window sent upstream belongs
\* to the session id the request was made for.
C15_SessionsIsolated ==
    /\ \A session_id \in DOMAIN sessions :
          \A i \in 1..Len(sessions[session_id].history) :
              Owner(sessions[session_id].history[i]) = session_id
    /\ \A c \in 1..Len(sent) :
          \A i \in 1..Len(sent[c].messages) :
              Owner(sent[c].messages[i]) = response.session_id

\* Both clients have a transcript they wrote to, and the last request sent
\* a window of one of them upstream.
C15_Witness ==
    /\ response.endpoint = "chat"
    /\ response.session_id = PairKnown
    /\ Len(sent) = 1
    /\ PairNew \in DOMAIN sessions
    /\ HistoryLen(PairNew) >= 2
    /\ sessions[PairKnown].history[HistoryLen(PairKnown) - 1].content
          = <<PairKnown, "!">>

\* ------------------------------------------------------------ SpecValidate: messages at the limits
\* Two clients that send, at one instant, with their session id or with
\* none, messages at the edges of the validator: empty, blank, one letter,
\* and MAX_MESSAGE_LENGTH letters more
\* or less, bare or with one whitespace character on each side.  A client
\* stops at a transcript of ValidateMaxHistory entries.  The last request is
\* kept with the message it carried.
ValidateIds == {"s1", "s2"}
ValidateMaxHistory == 4

\* left blanks, then n letters, then right line ends
Text(left, n, right) ==
    [i \in 1..(left + n + right) |->
        IF i <= left THEN " " ELSE IF i <= left + n THEN "a" ELSE "\n"]

ValidateMessages ==
    {Text(0, 0, 0), Text(1, 0, 1), Text(0, 1, 0), Text(1, 1, 1),
     Text(0, MAX_MESSAGE_LENGTH, 0), Text(0, MAX_MESSAGE_LENGTH + 1, 0),
     Text(1, MAX_MESSAGE_LENGTH - 2, 1), Text(1, MAX_MESSAGE_LENGTH - 1, 1),
     Text(1, MAX_MESSAGE_LENGTH, 1)}

ValidateChat ==
    \E session_id \in ValidateIds, raw \in ValidateMessages,
       upstream \in Replies({<<"o", "k">>}) :
        /\ HistoryLen(session_id) < ValidateMaxHistory
        /\ chat(session_id, raw, session_id, upstream)
        /\ Requested(session_id, session_id, raw, upstream)

ValidateChatNoId ==
    \E req \in {None, ""}, uuid \in Fresh(ValidateIds), raw \in ValidateMessages,
       upstream \in Replies({<<"o", "k">>}) :
        /\ chat(req, raw, uuid, upstream)
        /\ Requested(req, uuid, raw, upstream)

ValidateHistory ==
    \E session_id \in ValidateIds : get_history(session_id) /\ Unlogged

NextValidate ==
    \/ ValidateChat
    \/ ValidateChatNoId
    \/ ValidateHistory

SpecValidate == Init /\ [][NextValidate]_vars

\* ------------------------------------------------------------ claims on validation
\* The message of the last /chat request
LastMessage == log[Len(log)].message

\* C16: a /chat request whose message is empty, blank or longer than
\* MAX_MESSAGE_LENGTH is answered with the validation error and touches no
\* state: no session is created, changed or evicted, no rate-limit timestamp
\* is recorded, no upstream call is made.
C16_InvalidTouchesNothing ==
    [][(/\ response'.endpoint = "chat"
        /\ \/ LastMessage' = <<>>
           \/ strip(LastMessage') = <<>>
           \/ Len(LastMessage') > MAX_MESSAGE_LENGTH)
          => /\ response'.status = 422
             /\ sessions' = sessions
             /\ rate_limit_tracker' = rate_limit_tracker
             /\ evicted' = {}
             /\ sent' = <<>>]_vars

\* A message one letter too long was refused to a client that has neither
\* a session nor a rate-limit record, while the other client has both.
C16_Witness ==
    /\ response.endpoint = "chat"
    /\ response.status = 422
    /\ LastMessage = Text(0, MAX_MESSAGE_LENGTH + 1, 0)
    /\ log[1].session_id \notin (DOMAIN sessions) \cup (DOMAIN rate_limit_tracker)
    /\ DOMAIN sessions # {}

\* C17 as stated: a message passes validation exactly when its length after
\* trimming is between 1 and MAX_MESSAGE_LENGTH.
C17_TrimmedLength ==
    \A i \in 1..Len(log) :
        log[i].status # 422
            <=> /\ Len(strip(log[i].message)) >= 1
                /\ Len(strip(log[i].message)) <= MAX_MESSAGE_LENGTH

\* C17, amended: a message passes validation exactly when it is not empty
\* after trimming and its length before trimming is at most
\* MAX_MESSAGE_LENGTH (surrounding whitespace counts toward the limit).
C17_UntrimmedLength ==
    \A i \in 1..Len(log) :
        log[i].status # 422
            <=> /\ Len(strip(log[i].message)) >= 1
                /\ Len(log[i].message) <= MAX_MESSAGE_LENGTH

\* A message of MAX_MESSAGE_LENGTH characters, whitespace included, was
\* accepted and stored, trimmed, as the last user entry.
C17_Witness ==
    /\ response.endpoint = "chat"
    /\ response.status = 200
    /\ LastMessage = Text(1, MAX_MESSAGE_LENGTH - 2, 1)
    /\ sessions[response.session_id].history[HistoryLen(response.session_id) - 1]
          = Message("user", Text(0, MAX_MESSAGE_LENGTH - 2, 0))

\* ------------------------------------------------------------ claims on the upstream call
\* The transcript session_id has before the step (none if it has no session)
HistoryBefore(session_id) ==
    IF session_id \in DOMAIN sessions THEN sessions[session_id].history ELSE <<>>

\* C18: when the upstream call of a /chat request fails, the answer is 500
\* and nothing is undone: the session, created by this request if it was
\* new, is in the store with the transcript it had plus the user message as
\* its last entry, no reply after it, and last_activity set to now; the
\* sessions the request evicted stay evicted.
C18_FailureKeepsUserMessage ==
    [][(Len(sent') = 1 /\ sent'[1].raised)
          => LET session_id == response'.session_id
             IN  /\ ChatAnswered(500)
                 /\ response'.text = <<>>
                 /\ session_id \in DOMAIN sessions'
                 /\ LET new == sessions'[session_id].history
                    IN  /\ Len(new) = Len(HistoryBefore(session_id)) + 1
                        /\ IsPrefix(HistoryBefore(session_id), new)
                        /\ new[Len(new)].role = "user"
                        /\ new[Len(new)].content # <<>>
                 /\ sessions'[session_id].last_activity = clock
                 /\ evicted' \cap DOMAIN sessions' = {}]_vars

\* A session created by a request whose upstream call failed is in the
\* store, next to others, with the user message as its only entry.
C18_Witness ==
    /\ response.endpoint = "chat"
    /\ response.status = 500
    /\ HistoryLen(response.session_id) = 1
    /\ sessions[response.session_id].last_activity = clock
    /\ clock > 0
    /\ Cardinality(DOMAIN sessions) > 1

\* C19: a /chat request makes at most one upstream call, one that failed
\* included, and none when it is answered with the validation error, the
\* rate-limit error or the capacity error.
C19_OneCallAtMost ==
    /\ Len(sent) <= 1
    /\ response.endpoint = "chat"
          => Len(sent) = IF response.status \in {422, 429, 503} THEN 0 ELSE 1
    /\ \A c \in 1..Len(sent) : sent[c].raised <=> response.status = 500

\* A request on a transcript longer than the window made its one call,
\* which failed.
C19_Witness ==
    /\ response.endpoint = "chat"
    /\ response.status = 500
    /\ Len(sent) = 1
    /\ sent[1].raised
    /\ HistoryLen(response.session_id) > SLIDING_WINDOW_SIZE

\* C20: a successful /chat request on a session whose transcript has n
\* entries (none for a new session) appends the trimmed user message and
\* then the upstream's reply, nothing else, and answers with that reply,
\* with history_size = n + 2, the length of the stored transcript, and with
\* the session id it was given or the one generated for it.
C20_SuccessAppendsTurn ==
    [][ChatAnswered(200)
          => LET session_id == response'.session_id
                 old == HistoryBefore(session_id)
                 request == log'[Len(log')]
             IN  /\ session_id = IF request.given \in {None, ""}
                                 THEN request.session_id
                                 ELSE request.given
                 /\ session_id \in DOMAIN sessions'
                 /\ sessions'[session_id].history
                       = old \o <<Message("user", strip(request.message)),
                                  Message("assistant", request.reply)>>
                 /\ response'.text = request.reply
                 /\ response'.history_size = Len(old) + 2
                 /\ response'.history_size
                       = Len(sessions'[session_id].history)]_vars

\* A request without a session id got its first turn stored under the
\* generated one, the user message without the whitespace it came with,
\* next to a session that holds two turns.
C20_Witness ==
    /\ response.endpoint = "chat"
    /\ response.status = 200
    /\ log[1].given = None
    /\ response.session_id = log[1].session_id
    /\ response.history_size = 2
    /\ LastMessage = Text(1, MAX_MESSAGE_LENGTH - 2, 1)
    /\ sessions[response.session_id].history
          = <<Message("user", Text(0, MAX_MESSAGE_LENGTH - 2, 0)),
              Message("assistant", <<"o", "k">>)>>
    /\ \E other \in DOMAIN sessions : HistoryLen(other) = 4

\* ------------------------------------------------------------ claims on the window's last message
\* C21: the window of every /chat request that reaches the upstream call
\* ends with the user message of that request, role user and trimmed
\* content, whatever the length of the transcript and whether or not earlier
\* requests failed.
C21_WindowEndsWithRequest ==
    \A c \in 1..Len(sent) :
        LET w == sent[c].messages
        IN  /\ w # <<>>
            /\ w[Len(w)] = Message("user", strip(LastMessage))

\* A window cut from a transcript longer than SLIDING_WINDOW_SIZE ends with
\* the message of its request, which follows the message of a request whose
\* upstream call failed and differs from it.
C21_Witness ==
    /\ Len(sent) = 1
    /\ Len(C2_Transcript) > SLIDING_WINDOW_SIZE
    /\ LET w == sent[1].messages
       IN  /\ w[Len(w)].content = strip(LastMessage)
           /\ w[Len(w) - 1].role = "user"
           /\ w[Len(w) - 1].content # w[Len(w)].content

\* ------------------------------------------------------------ claims on /clear and the reads
\* C22: /clear of a session id in the store is answered 200 and leaves that
\* session with an empty transcript and last_activity set to now; /clear of
\* an id not in the store is answered 404 and changes nothing: no session
\* is created.
C22_ClearEmptiesOrFails ==
    [][response'.endpoint = "clear"
          => LET session_id == response'.session_id
             IN  IF session_id \in DOMAIN sessions
                 THEN /\ response'.status = 200
                      /\ session_id \in DOMAIN sessions'
                      /\ sessions'[session_id]
                            = [history |-> <<>>, last_activity |-> clock]
                 ELSE /\ response'.status = 404
                      /\ sessions' = sessions
                      /\ rate_limit_tracker' = rate_limit_tracker]_vars

\* A session that took a request at time 0 was cleared after the timeout had
\* passed: its transcript is empty and its last_activity is now.
C22_Witness ==
    /\ response.endpoint = "clear"
    /\ response.status = 200
    /\ clock > Timeout
    /\ sessions[response.session_id] = [history |-> <<>>, last_activity |-> clock]
    /\ rate_limit_tracker[response.session_id] = <<0>>

\* C24: a successful /clear of session A changes A's transcript and A's
\* last_activity and nothing else: the other sessions, the set of session
\* ids in the store and every rate-limit record, A's included, stay as they
\* were.
C24_ClearTouchesOneSession ==
    [][(response'.endpoint = "clear" /\ response'.status = 200)
          => /\ DOMAIN sessions' = DOMAIN sessions
             /\ \A other \in (DOMAIN sessions) \ {response'.session_id} :
                    sessions'[other] = sessions[other]
             /\ rate_limit_tracker' = rate_limit_tracker
             /\ evicted' = {}
             /\ sent' = <<>>]_vars

\* A session was cleared in a full store, inactive sessions included, and
\* keeps the record of a request of its own admitted at that same time.
C24_Witness ==
    /\ response.endpoint = "clear"
    /\ response.status = 200
    /\ Cardinality(DOMAIN sessions) = MAX_CONCURRENT_SESSIONS
    /\ Inactive # {}
    /\ clock \in {rate_limit_tracker[response.session_id][i] :
                     i \in 1..Len(rate_limit_tracker[response.session_id])}

\* C27: GET /sessions and GET /history/{id} change no transcript, no
\* last_activity and no rate-limit record and create no session; /history
\* of an id not in the store is answered 404, of a stored id with its
\* transcript.
C27_ReadsChangeNothing ==
    [][response'.endpoint \in {"sessions", "history"}
          => /\ sessions' = sessions
             /\ rate_limit_tracker' = rate_limit_tracker
             /\ evicted' = {}
             /\ sent' = <<>>
             /\ response'.endpoint = "sessions"
                   => response'.sessions_remaining = Cardinality(DOMAIN sessions)
             /\ response'.endpoint = "history"
                   => IF response'.session_id \in DOMAIN sessions
                      THEN /\ response'.status = 200
                           /\ response'.history
                                 = sessions[response'.session_id].history
                      ELSE response'.status = 404]_vars

\* The transcript of a session inactive beyond the timeout was read, and the
\* session is still as inactive.
C27_Witness ==
    /\ response.endpoint = "history"
    /\ response.status = 200
    /\ response.history # <<>>
    /\ response.session_id \in Inactive

\* ------------------------------------------------------------ SpecLife: the life of a session
\* Two clients that write, clear and read their session from the empty
\* store on, with maintenance runs in between, while time moves by a second
\* less or a second more than the inactivity timeout, LifeMaxTicks times.  A
\* client stops writing at a transcript of LifeMaxHistory entries or after
\* LifeMaxRecent requests in a rate window; the upstream fails for LifeProbe
\* only.  The last two requests are kept, each with the ids that were
\* evicted before it was answered and have had no session since.
LifeIds == {"s1", "s2"}
LifeProbe == {"s1"}
LifeMessages == {<<" ", "o", "i">>}
LifeSteps == {Timeout - 1, Timeout + 1}
LifeMaxHistory == 2
LifeMaxRecent == 2
LifeMaxTicks == 2

\* The ids evicted so far that have had no session since
Gone == IF log = <<>> THEN {} ELSE log[Len(log)].gone

Remembered ==
    /\ Observed
    /\ LET request == [time |-> clock, endpoint |-> response'.endpoint,
                       session_id |-> response'.session_id,
                       status |-> response'.status,
                       gone |-> (Gone \cup evicted') \ DOMAIN sessions']
       IN  log' = IF log = <<>>
                  THEN <<request>>
                  ELSE <<log[Len(log)], request>>

LifeChat ==
    \E session_id \in LifeIds, raw \in LifeMessages,
       upstream \in {Raises} \cup Replies({<<"o", "k">>}) :
        /\ upstream.raises => session_id \in LifeProbe
        /\ HistoryLen(session_id) < LifeMaxHistory
        /\ Recent(session_id) < LifeMaxRecent
        /\ chat(session_id, raw, session_id, upstream)
        /\ Remembered

LifeClear == \E session_id \in LifeIds : clear_history(session_id) /\ Remembered

LifeHistory == \E session_id \in LifeIds : get_history(session_id) /\ Remembered

LifeCleanup == cleanup_old_sessions /\ Remembered

LifeTick ==
    \E d \in LifeSteps :
        /\ clock + d <= LifeMaxTicks * (Timeout + 1)
        /\ Tick(d)
        /\ Unlogged

NextLife ==
    \/ LifeChat
    \/ LifeClear
    \/ LifeHistory
    \/ LifeCleanup
    \/ LifeTick

SpecLife == Init /\ [][NextLife]_vars

\* ------------------------------------------------------------ claims on the life of a session
\* The request remembered last, and whether a remembered request used its
\* session: a /chat that passed the limiter and the capacity check, or a
\* /clear that succeeded
LastRequest == log[Len(log)]

Used(request) ==
    \/ request.endpoint = "chat" /\ request.status \in {200, 500}
    \/ request.endpoint = "clear" /\ request.status = 200

\* C23: POST /clear is idempotent: a second /clear of the same session right
\* after a successful one, however much later, succeeds too and leaves the
\* state the first one left, but for the refreshed last_activity; the
\* transcript has length 0.
C23_ClearIdempotent ==
    [][(/\ log # <<>>
        /\ LastRequest.endpoint = "clear"
        /\ LastRequest.status = 200
        /\ clock' = clock
        /\ response'.endpoint = "clear"
        /\ response'.session_id = LastRequest.session_id)
       => /\ response'.status = 200
          /\ LastRequest.session_id \in DOMAIN sessions
          /\ sessions[LastRequest.session_id].history = <<>>
          /\ sessions' = [sessions EXCEPT
                             ![LastRequest.session_id].last_activity = clock]
          /\ sessions'[LastRequest.session_id].history = <<>>
          /\ rate_limit_tracker' = rate_limit_tracker]_vars

\* A session cleared twice in a row, the second time after it became inactive
C23_Witness ==
    /\ Len(log) = 2
    /\ log[1].endpoint = "clear" /\ log[1].status = 200
    /\ log[2].endpoint = "clear" /\ log[2].status = 200
    /\ log[2].session_id = log[1].session_id
    /\ log[2].time > log[1].time + Timeout
    /\ response = Answer("clear", 200, log[2].session_id)
    /\ sessions[log[2].session_id] =
           [history |-> <<>>, last_activity |-> log[2].time]

\* C25: an evicted session id is never reachable again: until a /chat with
\* that id is accepted, /history and /clear answer 404 for it, and the
\* accepted /chat creates a session whose transcript holds this request's
\* entries only; the upstream sees a window of the one new user message.
C25_EvictedStartsAnew ==
    [][\A session_id \in Gone :
          (clock' = clock /\ response'.session_id = session_id)
          => /\ response'.endpoint \in {"history", "clear"}
                => /\ response'.status = 404
                   /\ session_id \notin DOMAIN sessions'
             /\ (response'.endpoint = "chat" /\ response'.status \in {200, 500})
                => \E raw \in LifeMessages :
                      LET asked == Message("user", strip(raw))
                      IN  /\ sent' = <<Call(<<asked>>, response'.status = 500)>>
                          /\ sessions'[session_id] =
                                [history |->
                                    IF response'.status = 200
                                    THEN <<asked, Message("assistant",
                                                          response'.text)>>
                                    ELSE <<asked>>,
                                 last_activity |-> clock]]_vars

\* A /chat answered for an id whose session had been evicted with a
\* transcript of two entries
C25_Witness ==
    /\ Len(log) = 2
    /\ LastRequest.endpoint = "chat"
    /\ LastRequest.status = 200
    /\ LastRequest.session_id \in log[1].gone
    /\ LastRequest.gone = log[1].gone \ {LastRequest.session_id}
    /\ response.status = 200
    /\ response.session_id = LastRequest.session_id
    /\ Len(sessions[LastRequest.session_id].history) = 2

\* C26: every /chat that passes the limiter and the capacity check, failed
\* upstream call included, and every successful /clear sets the session's
\* last_activity to the time of the request; a maintenance or admission run
\* less than the timeout after a remembered use of a session keeps it.
C26_UseRefreshes ==
    [][/\ (/\ clock' = clock
           /\ log' # <<>>
           /\ log'[Len(log')].time = clock
           /\ response'.session_id = log'[Len(log')].session_id
           /\ response'.endpoint = log'[Len(log')].endpoint
           /\ Used(log'[Len(log')]))
          => /\ response'.session_id \in DOMAIN sessions'
             /\ sessions'[response'.session_id].last_activity = clock
       /\ \A i \in 1..Len(log) :
             (Used(log[i]) /\ clock' - log[i].time < Timeout)
             => /\ log[i].session_id \in DOMAIN sessions'
                /\ sessions'[log[i].session_id].last_activity >= log[i].time
      ]_vars

\* A session created long ago whose last use was a failed /chat, kept by a
\* maintenance run a second less than the timeout later that a session
\* unused since its creation did not survive
C26_Witness ==
    /\ Len(log) = 2
    /\ log[1].endpoint = "chat" /\ log[1].status = 500
    /\ log[1].time > 0
    /\ log[2].endpoint = "cleanup"
    /\ log[2].time = log[1].time + Timeout - 1
    /\ log[2].gone # {}
    /\ response.endpoint = "cleanup"
    /\ log[1].session_id \in DOMAIN sessions
    /\ sessions[log[1].session_id].last_activity = log[1].time
    /\ Len(sessions[log[1].session_id].history) = 2

\* ------------------------------------------------------------ SpecLoop: requests that overlap
\* Two clients send /chat requests, each text once per session, and read
\* their transcripts while upstream calls are pending and time passes; the
\* upstream answers a window with its last message behind an "r", or fails.
LoopIds == {"s1", "s2"}
LoopMessages == {<<"a">>, <<" ", "b">>, <<"c", "\n">>}
LoopStep == 30
LoopMaxClock == 30

Echo(window) == <<"r">> \o window[Len(window)].content

LoopOffered(session_id, raw) ==
    \/ session_id \notin DOMAIN sessions
    \/ \A i \in 1..HistoryLen(session_id) :
          sessions[session_id].history[i] # Message("user", strip(raw))

LoopBegin ==
    \E session_id \in LoopIds :
        \E raw \in LoopMessages :
            /\ LoopOffered(session_id, raw)
            /\ chat_begin(session_id, raw, session_id)
            /\ Unlogged

LoopEnd ==
    \E i \in DOMAIN in_flight :
        \E upstream \in {Raises} \cup Replies({Echo(in_flight[i].window)}) :
            /\ chat_end(i, upstream)
            /\ Unlogged

LoopHistory ==
    \E session_id \in LoopIds :
        /\ event_loop_free
        /\ get_history(session_id)
        /\ Unlogged

LoopTick ==
    /\ clock + LoopStep <= LoopMaxClock
    /\ Tick(LoopStep)
    /\ Unlogged

NextLoop ==
    \/ LoopBegin
    \/ LoopEnd
    \/ LoopHistory
    \/ LoopTick

SpecLoop == Init /\ [][NextLoop]_vars

\* ------------------------------------------------------------ claims on overlapping requests
PendingOn(requests, session_id) ==
    {i \in DOMAIN requests : requests[i].session_id = session_id}

\* C28: at most one /chat per session id is between the append of its user
\* message and the append of its reply: while a request on a session is
\* waiting for the upstream, no step appends to that transcript or computes
\* a window on it, but the step that completes this very request.
C28_OnePendingPerSession ==
    [][/\ \A session_id \in LoopIds :
             Cardinality(PendingOn(in_flight', session_id)) <= 1
       /\ \A i \in DOMAIN in_flight :
             LET session_id == in_flight[i].session_id
                 before == sessions[session_id].history
             IN  /\ session_id \in DOMAIN sessions'
                 /\ \/ /\ sessions'[session_id].history = before
                       /\ PendingOn(in_flight', session_id)
                              = PendingOn(in_flight, session_id)
                       /\ sent' = <<>>
                    \/ /\ in_flight' = Without(in_flight, i)
                       /\ sent' # <<>>
                       /\ sent'[1].messages = in_flight[i].window
                       /\ sessions'[session_id].history \in
                              {before,
                               Append(before,
                                      Message("assistant",
                                              Echo(in_flight[i].window)))}
      ]_vars

\* A request on s1 waits for the upstream on a transcript that already
\* holds a complete turn, a further message for s1 is there to be sent, and
\* no handler can start
C28_Witness ==
    /\ Len(in_flight) = 1
    /\ in_flight[1].session_id = "s1"
    /\ in_flight[1].window = sessions["s1"].history
    /\ Len(sessions["s1"].history) = 3
    /\ sessions["s1"].history[2].role = "assistant"
    /\ \E raw \in LoopMessages :
          /\ LoopOffered("s1", raw)
          /\ ~ ENABLED chat_begin("s1", raw, "s1")

\* C29: in every reachable state, requests overlapping or not, each
\* assistant message of a stored transcript comes right after the user
\* message of the request that produced it: the entry before it is a user
\* message and the reply is the upstream's answer to that message.
C29_ReplyFollowsItsRequest ==
    \A session_id \in DOMAIN sessions :
        \A i \in 1..HistoryLen(session_id) :
            LET history == sessions[session_id].history
            IN  history[i].role = "assistant"
                => /\ i > 1
                   /\ history[i - 1].role = "user"
                   /\ history[i].content = <<"r">> \o history[i - 1].content

\* A transcript with two answered requests around a failed one, while a
\* request on the other session waits for the upstream
C29_Witness ==
    /\ "s1" \in DOMAIN sessions
    /\ Len(sessions["s1"].history) = 5
    /\ sessions["s1"].history[2].role = "assistant"
    /\ sessions["s1"].history[3].role = "user"
    /\ sessions["s1"].history[4].role = "user"
    /\ sessions["s1"].history[5].role = "assistant"
    /\ Len(in_flight) = 1
    /\ in_flight[1].session_id = "s2"

\* C30: a /chat on a session can start and run to completion while a /chat
\* on another session waits for its upstream call: whenever a request is in
\* flight, a /chat on any other session is able to start, and every request
\* in flight is able to complete.
C30_UnrelatedProceed ==
    \A i \in DOMAIN in_flight :
        /\ \A session_id \in LoopIds \ {in_flight[i].session_id} :
              \A raw \in LoopMessages :
                  ENABLED chat_begin(session_id, raw, session_id)
        /\ ENABLED chat_end(i, Raises)

\* ------------------------------------------------------------ claims on records and outcomes
\* C39: in every reachable state each rate-limit record holds at most
\* RATE_LIMIT_MAX_REQUESTS timestamps, in non-decreasing order of time.
C39_RecordBoundedAndOrdered ==
    \A session_id \in DOMAIN rate_limit_tracker :
        LET record == rate_limit_tracker[session_id]
        IN  /\ Len(record) <= RATE_LIMIT_MAX_REQUESTS
            /\ \A i \in 1..Len(record) :
                  \A j \in i..Len(record) : record[i] <= record[j]

\* A full record that spans two request times, right after a rejection
C39_Witness ==
    /\ RateId \in DOMAIN rate_limit_tracker
    /\ Len(rate_limit_tracker[RateId]) = RATE_LIMIT_MAX_REQUESTS
    /\ rate_limit_tracker[RateId][1]
           < rate_limit_tracker[RateId][RATE_LIMIT_MAX_REQUESTS]
    /\ rate_limit_tracker[RateId][RATE_LIMIT_MAX_REQUESTS] = clock
    /\ response.status = 429

\* What the checks of a /chat on session_id find in the current state
Limited(session_id) ==
    Len(Counted(rate_limit_tracker, session_id)) >= RATE_LIMIT_MAX_REQUESTS

Crowded(session_id) ==
    /\ session_id \notin DOMAIN sessions
    /\ Cardinality(DOMAIN sessions \ Inactive) >= MAX_CONCURRENT_SESSIONS

\* C32: each failure of /chat reaches the caller with its own status: 429
\* exactly when the limiter rejects, 503 exactly when the limiter admits and
\* the store is full for a new id, 500 exactly when the upstream call made
\* raised; a rejection is not turned into a 500 and no call is made for it.
C32_FailuresKeepTheirStatus ==
    [][(response'.endpoint = "chat" /\ response'.status # 422)
       => LET session_id == response'.session_id
              called == sent' # <<>>
          IN  /\ response'.status \in {200, 429, 500, 503}
              /\ response'.status = 429 <=> Limited(session_id)
              /\ response'.status = 503
                    <=> (~Limited(session_id) /\ Crowded(session_id))
              /\ called <=> response'.status \in {200, 500}
              /\ called => Len(sent') = 1
              /\ response'.status = 500 <=> (called /\ sent'[1].raised)
              /\ response'.status = 200 <=> (called /\ ~sent'[1].raised)
      ]_vars

\* A capacity rejection answered as 503 on a store where a request of the
\* known session would reach the upstream
C32_Witness ==
    /\ response = Answer("chat", 503, PairNew)
    /\ sent = <<>>
    /\ Crowded(PairNew)
    /\ ~Limited(PairNew)
    /\ ~Limited(PairKnown)
    /\ HistoryLen(PairKnown) >= 2 * PairPrior

\* C34: a /chat for an id without session that the limiter rejects is
\* answered 429 whatever the store holds, full or with inactive sessions:
\* the limiter is asked before the eviction run and the capacity check, so
\* nothing is evicted, no session is made and no call goes upstream.
C34_LimiterBeforeCapacity ==
    [][(/\ response'.endpoint = "chat"
        /\ response'.status # 422
        /\ response'.session_id \notin DOMAIN sessions
        /\ Limited(response'.session_id))
       => /\ response'.status = 429
          /\ evicted' = {}
          /\ sessions' = sessions
          /\ sent' = <<>>]_vars

\* The new id, over its limit while the store is full of active sessions,
\* has just been answered 429
C34_Witness ==
    /\ response = Answer("chat", 429, PairNew)
    /\ Limited(PairNew)
    /\ Crowded(PairNew)
    /\ Inactive = {}
    /\ DOMAIN sessions = PairIds

\* C35: every /chat the limiter admits has its timestamp recorded for its
\* session id whatever happens next, a capacity rejection or an upstream
\* failure included; the record of an id that has no session is left as it
\* is by every request of others, eviction runs included.
C35_AdmittedIsRecorded ==
    [][/\ (response'.endpoint = "chat" /\ response'.status \in {200, 500, 503})
          => /\ response'.session_id \in DOMAIN rate_limit_tracker'
             /\ rate_limit_tracker'[response'.session_id]
                   = Append(Counted(rate_limit_tracker, response'.session_id),
                            clock)
       /\ \A session_id \in DOMAIN rate_limit_tracker \ DOMAIN sessions :
             response'.session_id # session_id
             => /\ session_id \in DOMAIN rate_limit_tracker'
                /\ rate_limit_tracker'[session_id]
                      = rate_limit_tracker[session_id]
      ]_vars

\* A maintenance run removed sessions and kept the record that the new id
\* got from two capacity rejections
C35_Witness ==
    /\ response.endpoint = "cleanup"
    /\ response.sessions_removed > 0
    /\ PairNew \in DOMAIN rate_limit_tracker \ DOMAIN sessions
    /\ Len(rate_limit_tracker[PairNew]) = PairPrior + 2

\* C33: a session enters the store only through a /chat that passed
\* validation, the limiter and the capacity check, and it is the session of
\* that request; sessions leave only in an eviction run, of maintenance or
\* of the admission of a new id, and only inactive ones; /clear, /history,
\* /sessions and rejected /chat requests neither add nor remove a session.
C33_StoreChangesOnlyByChatAndEviction ==
    [][LET added == DOMAIN sessions' \ DOMAIN sessions
           removed == DOMAIN sessions \ DOMAIN sessions'
           accepted == /\ response'.endpoint = "chat"
                       /\ response'.status \in {200, 500}
       IN  /\ added # {} => (accepted /\ added = {response'.session_id})
           /\ removed # {}
                 => /\ removed \subseteq Inactive
                    /\ \/ response'.endpoint = "cleanup"
                       \/ accepted /\ added # {}
           /\ (\/ response'.endpoint \in {"clear", "history", "sessions"}
               \/ /\ response'.endpoint = "chat"
                  /\ response'.status \in {422, 429, 503})
                 => DOMAIN sessions' = DOMAIN sessions
      ]_vars

\* A new id was admitted to a full store by the eviction run of its own
\* request, which removed inactive sessions
C33_Witness ==
    /\ response.endpoint = "chat"
    /\ response.status = 200
    /\ evicted # {}
    /\ response.session_id \in DOMAIN sessions
    /\ sessions[response.session_id].last_activity = clock
    /\ Len(sessions[response.session_id].history) = 2
    /\ Cardinality(DOMAIN sessions) + Cardinality(evicted)
           > MAX_CONCURRENT_SESSIONS

\* C37: a session that is inactive but that no eviction run has removed yet
\* still serves a /chat for its id: the request is not turned away for
\* capacity, no eviction run is made, the stored transcript is kept whole
\* under the new entries and goes upstream with the new message, and
\* last_activity is refreshed so that an eviction run now keeps the session.
C37_InactiveSessionStillServes ==
    [][\A session_id \in Inactive :
          (response'.endpoint = "chat" /\ response'.session_id = session_id)
          => /\ response'.status \in {200, 429, 500}
             /\ response'.status \in {200, 500}
                => LET before == sessions[session_id].history
                       after == sessions'[session_id].history
                   IN  /\ evicted' = {}
                       /\ DOMAIN sessions' = DOMAIN sessions
                       /\ Len(after) = Len(before)
                                       + (IF response'.status = 200 THEN 2 ELSE 1)
                       /\ SubSeq(after, 1, Len(before)) = before
                       /\ after[Len(before) + 1].role = "user"
                       /\ sent'[1].messages
                             = sliding_window(Append(before,
                                                     after[Len(before) + 1]))
                       /\ sessions'[session_id].last_activity = clock
                       /\ session_id \in DOMAIN
                             cleanup_inactive_sessions(
                                 sessions', rate_limit_tracker', clock).sessions
      ]_vars

\* On a full store whose sessions all became inactive, one of them was
\* served a second turn, and the others are still there, inactive
C37_Witness ==
    /\ response.endpoint = "chat"
    /\ response.status = 200
    /\ clock = Timeout + 1
    /\ evicted = {}
    /\ Cardinality(DOMAIN sessions) = MAX_CONCURRENT_SESSIONS
    /\ Cardinality(Inactive) = MAX_CONCURRENT_SESSIONS - 1
    /\ response.session_id \in DOMAIN sessions \ Inactive
    /\ Len(sessions[response.session_id].history) = 4

\* ------------------------------------------------------------ claims on the start of the window
\* A transcript of whole turns followed by the message of the request
WholeTurns(T) ==
    \A i \in 1..Len(T) :
        T[i].role = IF i % 2 = 1 THEN "user" ELSE "assistant"

\* C36 as claimed: every window sent upstream begins with a user message.
C36_WindowBeginsWithUser ==
    \A c \in 1..Len(sent) : sent[c].messages[1].role = "user"

\* C36: every window sent upstream ends with a user message; it begins with
\* one when the transcript with the new message has at most
\* SLIDING_WINDOW_SIZE entries, and it begins with an assistant message when
\* that transcript is longer and made of whole turns.
C36_WindowBeginsWhereTailBegins ==
    \A c \in 1..Len(sent) :
        LET T == C2_Transcript
            w == sent[c].messages
        IN  /\ w[Len(w)].role = "user"
            /\ Len(T) <= SLIDING_WINDOW_SIZE => w[1].role = "user"
            /\ (Len(T) > SLIDING_WINDOW_SIZE /\ WholeTurns(T))
               => w[1].role = "assistant"

\* The eleventh turn of a session of ten whole turns went upstream in a
\* window that begins with the reply of the first turn
C36_Witness ==
    /\ Len(sent) = 1
    /\ response.status = 200
    /\ Len(C2_Transcript) = SLIDING_WINDOW_SIZE + 1
    /\ WholeTurns(C2_Transcript)
    /\ sent[1].messages[1] = C2_Transcript[2]
    /\ sent[1].messages[1].role = "assistant"

\* ------------------------------------------------------------ SpecWait: requests that take long
\* Two clients write and clear from the empty store on, and
\* maintenance runs, while upstream calls may stay pending for longer than
\* the inactivity timeout.  A client stops writing at a transcript of
\* WaitMaxHistory entries or after WaitMaxRecent requests in a rate window.
WaitIds == {"s1", "s2"}
WaitMessages == {<<"a">>, <<" ", "b">>}
WaitMaxHistory == 4
WaitMaxRecent == 2
WaitMaxTicks == 1

WaitBegin ==
    \E session_id \in WaitIds :
        \E raw \in WaitMessages :
            /\ HistoryLen(session_id) < WaitMaxHistory
            /\ Recent(session_id) < WaitMaxRecent
            /\ chat_begin(session_id, raw, session_id)
            /\ Unlogged

WaitEnd ==
    \E i \in DOMAIN in_flight :
        \E upstream \in {Raises} \cup Replies({Echo(in_flight[i].window)}) :
            /\ chat_end(i, upstream)
            /\ Unlogged

WaitClear ==
    \E session_id \in WaitIds :
        /\ event_loop_free
        /\ clear_history(session_id)
        /\ Unlogged

WaitCleanup ==
    /\ event_loop_free
    /\ cleanup_old_sessions
    /\ Unlogged

WaitTick ==
    /\ clock + Timeout + 1 <= WaitMaxTicks * (Timeout + 1)
    /\ Tick(Timeout + 1)
    /\ Unlogged

NextWait ==
    \/ WaitBegin
    \/ WaitEnd
    \/ WaitClear
    \/ WaitCleanup
    \/ WaitTick

SpecWait == Init /\ [][NextWait]_vars

\* C38: the history_size of a successful /chat is the length of the stored
\* transcript when the response is produced, and the reply is the last
\* entry of that transcript; from the append of the user message to the
\* response, however long the upstream call takes, no step clears or evicts
\* the session or takes anything from its transcript.
C38_HistorySizeIsStoredLength ==
    [][/\ (response'.endpoint = "chat" /\ response'.status = 200)
          => LET session_id == response'.session_id
             IN  /\ session_id \in DOMAIN sessions'
                 /\ response'.history_size
                       = Len(sessions'[session_id].history)
                 /\ sessions'[session_id].history # <<>>
                 /\ sessions'[session_id].history[response'.history_size]
                       = Message("assistant", response'.text)
       /\ \A i \in DOMAIN in_flight :
             LET session_id == in_flight[i].session_id
             IN  /\ session_id \in DOMAIN sessions
                 /\ session_id \in DOMAIN sessions'
                 /\ IsPrefix(sessions[session_id].history,
                             sessions'[session_id].history)
      ]_vars

\* A call that took longer than the inactivity timeout has been answered:
\* the session, by now inactive and next to another inactive one, holds the
\* reply
C38_Witness ==
    /\ response.endpoint = "chat"
    /\ response.status = 200
    /\ response.session_id \in Inactive
    /\ Cardinality(Inactive) = 2
    /\ response.history_size = 4
    /\ Len(sessions[response.session_id].history) = 4
    /\ sessions[response.session_id].history[4].content = response.text

\* ------------------------------------------------------------ C31: requests complete
\* The source passes no timeout to Anthropic(...) or to
\* client.messages.create, and the handler does not bound the call itself:
\* whether a call whose upstream never answers returns is decided inside
\* the client library.  SpecWaitFair is SpecWait with the assumption that
\* every call returns or raises.
SpecWaitFair == SpecWait /\ WF_vars(WaitEnd)

\* C31, as far as the source decides it: when every upstream call returns
\* or raises, every /chat that reached the upstream is answered, with 200 or
\* with 500, and is in flight no longer.
C31_CompletesWhenUpstreamReturns ==
    (in_flight # <<>>)
        ~> (/\ in_flight = <<>>
            /\ response.endpoint = "chat"
            /\ response.status \in {200, 500})

=============================================================================
